---- MODULE Spec2Model ----
(***************************************************************************)
(* Model of the gmail-wa email-to-ledger pipeline: the Node (Google Sheets) *)
(* orchestrator, the Cloudflare Worker (D1) orchestrator, the continuous    *)
(* runner's isProcessing guard, the Worker's fetch/scheduled entry points   *)
(* and the duplicate resolvers.                                             *)
(***************************************************************************)
EXTENDS Integers, Sequences, FiniteSets, TLC

(***************************************************************************)
(* Bounds of the model.                                                     *)
(***************************************************************************)
MaxExisting == 2
MaxEmails == 2
MaxCycles == 2

(***************************************************************************)
(* JavaScript values.  A value is a number, a string or null; a string is a *)
(* sequence of tokens (characters, or whole words where the code never      *)
(* looks inside them).                                                      *)
(***************************************************************************)
Num(n) == [t |-> "num", n |-> n, s |-> <<>>]
Str(s) == [t |-> "str", n |-> 0, s |-> s]
Null == [t |-> "null", n |-> 0, s |-> <<>>]

\* JavaScript truthiness: null, 0 and '' are falsy.
Falsy(v) == \/ v.t = "null"
            \/ v.t = "num" /\ v.n = 0
            \/ v.t = "str" /\ v.s = <<>>

\* a || b
OrElse(a, b) == IF Falsy(a) THEN b ELSE a

DigitTok(d) == CASE d = 0 -> "0" [] d = 1 -> "1" [] d = 2 -> "2" [] d = 3 -> "3"
                 [] d = 4 -> "4" [] d = 5 -> "5" [] d = 6 -> "6" [] d = 7 -> "7"
                 [] d = 8 -> "8" [] d = 9 -> "9"

RECURSIVE Digits(_)
Digits(n) == IF n < 10 THEN <<DigitTok(n)>> ELSE Digits(n \div 10) \o <<DigitTok(n % 10)>>

\* Number.prototype.toString for the integers of the model
NumToStr(n) == IF n < 0 THEN <<"-">> \o Digits(0 - n) ELSE Digits(n)

\* String(v)
JSString(v) == CASE v.t = "num" -> NumToStr(v.n)
                 [] v.t = "str" -> v.s
                 [] v.t = "null" -> <<"null">>

LowerTok(c) == CASE c = "A" -> "a" [] c = "B" -> "b" [] c = "M" -> "m"
                 [] c = "Date" -> "date" [] c = "Amount" -> "amount"
                 [] c = "Category" -> "category" [] c = "Description" -> "description"
                 [] c = "Lainnya" -> "lainnya"
                 [] c = "Pen" -> "pen" [] c = "Pem" -> "pem"
                 [] c = "Mandiri" -> "mandiri" [] c = "Wimboro" -> "wimboro"
                 [] c = "Fara" -> "fara" [] c = "Seabank" -> "seabank"
                 [] c = "Jago" -> "jago" [] c = "Blu" -> "blu"
                 [] c = "Neobank" -> "neobank" [] c = "BCA" -> "bca"
                 [] c = "Bank" -> "bank"
                 [] OTHER -> c

\* String.prototype.toLowerCase
toLowerCase(s) == [i \in 1..Len(s) |-> LowerTok(s[i])]

IsSpace(c) == c = " "

RECURSIVE TrimLeft(_)
TrimLeft(s) == IF s # <<>> /\ IsSpace(Head(s)) THEN TrimLeft(Tail(s)) ELSE s

RECURSIVE TrimRight(_)
TrimRight(s) == IF s # <<>> /\ IsSpace(s[Len(s)]) THEN TrimRight(SubSeq(s, 1, Len(s) - 1)) ELSE s

\* String.prototype.trim
trim(s) == TrimRight(TrimLeft(s))

(***************************************************************************)
(* Duplicate Resolver of the Sheets service.                                *)
(***************************************************************************)
keyFields == <<"date", "amount", "category", "description">>

\* String(entry[field] || '').toLowerCase().trim()
KeyVal(entry, field) == trim(toLowerCase(JSString(OrElse(entry[field], Str(<<>>)))))

\* EntryMatch with the bank added to the key fields
EntryMatch_BankKey(newEntry, existing) ==
    /\ \A i \in 1..Len(keyFields) : KeyVal(newEntry, keyFields[i]) = KeyVal(existing, keyFields[i])
    /\ KeyVal(newEntry, "bank") = KeyVal(existing, "bank")

\* the inner loop over keyFields: match stays true only if no field differs
EntryMatch(newEntry, existing) ==
    \A i \in 1..Len(keyFields) : KeyVal(newEntry, keyFields[i]) = KeyVal(existing, keyFields[i])

isDuplicate(newEntry, existingEntries) ==
    \E i \in 1..Len(existingEntries) : EntryMatch(newEntry, existingEntries[i])

(***************************************************************************)
(* Duplicate pre-check of the D1 service: the SELECT of insertTransaction.  *)
(***************************************************************************)
D1RowMatch(transaction, row) ==
    /\ row.date = transaction.date
    /\ row.amount = transaction.amount
    /\ row.description = transaction.description
    /\ row.bank = transaction.bank

D1Existing(transaction, rows) ==
    \E i \in 1..Len(rows) : D1RowMatch(transaction, rows[i])

(***************************************************************************)
(* What a ledger row looks like when it is read back from the sheet: every  *)
(* cell comes back as its string form.                                      *)
(***************************************************************************)
SheetCell(v) == Str(JSString(v))

SheetEntry(row) == [date |-> SheetCell(row.date), amount |-> SheetCell(row.amount),
                    category |-> SheetCell(row.category),
                    description |-> SheetCell(row.description),
                    bank |-> SheetCell(row.bank)]

SheetView(rows) == [i \in 1..Len(rows) |-> SheetEntry(rows[i])]

VARIABLES dupCand, dupLedger, dupVerdict, dupPrev

dupVars == <<dupCand, dupLedger, dupVerdict, dupPrev>>

\* The continuous Node runner (src/test-whatsapp-format.js, 111-180).
VARIABLES
    isProcessing,          \* the module-level flag
    emailCheckInterval,    \* TRUE once setInterval has armed the timer
    calls,                 \* the invocations of processEmailsOnce, in order of arrival
    active                 \* calls of processAllAccounts in progress

runVars == <<isProcessing, emailCheckInterval, calls, active>>

\* The entry points of the Cloudflare Worker (src/workers/src/index.ts).
VARIABLES
    runs,                  \* the invocations of fetch /trigger and of scheduled
    workerActive           \* calls of processAllAccounts(env) in progress

entryVars == <<runs, workerActive>>

\* The WhatsApp service: one call of sendWhatsAppNotification or of
\* sendBatchWhatsAppNotification (src/unnamed/part_003, workers/src/services/whatsapp.ts).
VARIABLES
    waImpl,                \* "node" or "worker"
    waPhones,              \* number of valid entries of WHATSAPP_PHONE_NUMBERS
    waGroup,               \* TRUE when WHATSAPP_GROUP_ID is configured
    waPc,                  \* "idle", "sending", "done"
    waKind,                \* "none", "individual", "batch"
    waSession,             \* outcome of initializeWhatsApp: "none", "up", "failed"
    waQueue,               \* targets the delivery loop has still to visit
    waAttempts             \* the calls of sendWAHAMessage made: target and outcome

waVars == <<waImpl, waPhones, waGroup, waPc, waKind, waSession, waQueue, waAttempts>>

\* processAllAccounts: the loop over the configured accounts.
VARIABLES
    GMAIL_ACCOUNTS,        \* the configured list; 0 stands for an entry that trims to ''
    acctIdx,               \* position of the loop in the list
    acctRunning,           \* position whose processGmailAccount is awaited, or 0
    acctStarted,           \* positions for which processGmailAccount was called, in order
    summaries,             \* the summaries pushed so far
    acctReturned           \* processAllAccounts has returned

acctVars == <<GMAIL_ACCOUNTS, acctIdx, acctRunning, acctStarted, summaries, acctReturned>>

\* determineBankTransactionType applied to one description text.
VARIABLES
    kwText,                \* the transactionText handed in
    kwType                 \* the type returned, or "none" before the call

kwVars == <<kwText, kwType>>

\* One call of a parser (parseEmailWithEnhancedGemini, the Node
\* parseEmailWithGemini, the Worker parseEmailWithGemini).
VARIABLES
    psImpl,                \* which parser is called
    psFault,               \* the failure condition of the call, or "none"
    psResp,                \* the JSON object the model answers with
    psOut                  \* how the call ended and what it returned

psVars == <<psImpl, psFault, psResp, psOut>>

\* One call of extractEmailBody.
VARIABLES
    mimeImpl,              \* "node" or "worker"
    mimePayload,           \* the payload tree handed in
    mimeOut                \* whether the call returned, and what

mimeVars == <<mimeImpl, mimePayload, mimeOut>>

\* Concurrent callers of the Node initializeWhatsApp.
VARIABLES
    sfEnabled,             \* CONFIG.ENABLE_WHATSAPP_NOTIFICATIONS
    initializationPromise, \* the attempt held by the module, or NoPromise
    sfAttempts,            \* the state of every attempt started so far
    sfCaller               \* per caller: where it is and which attempt it awaits

sfVars == <<sfEnabled, initializationPromise, sfAttempts, sfCaller>>

\* The Node process from startup to exit (main, gracefulShutdown); it shares
\* isProcessing and emailCheckInterval with the runner.
VARIABLES
    sdEnabled,             \* CONFIG.ENABLE_WHATSAPP_NOTIFICATIONS
    sdMain,                \* where main is: "init", "firstCycle", "monitoring"
    sdCycle,               \* the account and message the cycle in flight is at
    sdTick,                \* seconds until the interval fires next
    sdPoll,                \* seconds until the shutdown handler looks again, or NoTimer
    sdSignalled,           \* SIGINT or SIGTERM was received
    sdClosed,              \* closeWhatsApp was called
    sdExited,              \* process.exit was called
    sdAfter                \* what began after the signal: cycle, account, message

sdVars == <<sdEnabled, sdMain, sdCycle, sdTick, sdPoll, sdSignalled, sdClosed, sdExited, sdAfter>>

\* One call of getHeaderRow and createDataRow.
VARIABLES
    rowEntry,              \* the entry handed to createDataRow
    rowUserId,             \* its userId argument
    rowOut                 \* the header and the row returned, once called

rowVars == <<rowEntry, rowUserId, rowOut>>

\* The Worker's getEmails and the message loop that consumes its result.
VARIABLES
    fetList,               \* the ids of the list response, in list order
    fetI,                  \* the loop variable i of getEmails
    fetArrived,            \* the messages of the current batch whose fetch ended, in that order
    fetFailed,             \* the messages whose fetch gave null
    fetEmails,             \* the array emails
    fetPc,                 \* "fetching", "loop" or "done"
    fetBusy,               \* the message the loop is handling, or 0
    fetHandled,            \* the messages the loop has handled, in that order
    fetReordered           \* some batch's fetches ended out of list order

fetVars == <<fetList, fetI, fetArrived, fetFailed, fetEmails, fetPc, fetBusy, fetHandled,
             fetReordered>>

\* Concurrent calls of insertTransaction (src/unnamed/part_005, 9-69).
VARIABLES
    insTable,              \* the rows of the transactions table
    insPc,                 \* per cycle: "idle", or "insert" between SELECT and INSERT
    insTx,                 \* per cycle: the transaction of the call in progress
    insCalls,              \* per cycle: calls of insertTransaction made so far
    insRaced               \* a SELECT ran between another call's SELECT and INSERT

insVars == <<insTable, insPc, insTx, insCalls, insRaced>>

moreVars == <<waVars, acctVars, kwVars, psVars, mimeVars, sfVars, sdVars, rowVars, fetVars, insVars>>

outsideCycle == <<dupVars, runVars, entryVars, moreVars>>

\* the runner before startEmailMonitoring, the Worker before any request
RunnerOff ==
    /\ isProcessing = FALSE /\ emailCheckInterval = FALSE
    /\ calls = <<>> /\ active = 0

EntryOff == runs = <<>> /\ workerActive = 0

\* the WhatsApp service never called
NotifyOff ==
    /\ waImpl = "node" /\ waPhones = 0 /\ waGroup = FALSE
    /\ waPc = "idle" /\ waKind = "none" /\ waSession = "none"
    /\ waQueue = <<>> /\ waAttempts = <<>>

\* processAllAccounts never called, no account configured
AccountsOff ==
    /\ GMAIL_ACCOUNTS = <<>> /\ acctIdx = 1 /\ acctRunning = 0
    /\ acctStarted = <<>> /\ summaries = <<>> /\ acctReturned = FALSE

\* determineBankTransactionType never called
KeywordsOff == kwText = <<>> /\ kwType = "none"

NoResponse == [date |-> Null, amount |-> Null, transaction_type |-> Null, bank |-> Null,
               description |-> Null]

NotCalled == [kind |-> "none", data |-> NoResponse]

\* no parser called
ParseOff ==
    /\ psImpl = "worker" /\ psFault = "none"
    /\ psResp = NoResponse /\ psOut = NotCalled

NoPayload == [mimeType |-> "none", data |-> Null, multi |-> FALSE, parts |-> <<>>]

NotExtracted == [called |-> FALSE, value |-> Null]

\* extractEmailBody never called
ExtractOff == mimeImpl = "node" /\ mimePayload = NoPayload /\ mimeOut = NotExtracted

NoPromise == 0

\* initializeWhatsApp never called
SingleFlightOff ==
    /\ sfEnabled = TRUE /\ initializationPromise = NoPromise
    /\ sfAttempts = <<>> /\ sfCaller = <<>>

NoTimer == -1

NoCycle == [acct |-> 0, msg |-> 0]

NothingAfter == [cycle |-> FALSE, acct |-> FALSE, msg |-> FALSE]

\* the process not started
ShutdownOff ==
    /\ sdEnabled = TRUE /\ sdMain = "init" /\ sdCycle = NoCycle
    /\ sdTick = NoTimer /\ sdPoll = NoTimer
    /\ sdSignalled = FALSE /\ sdClosed = FALSE /\ sdExited = FALSE
    /\ sdAfter = NothingAfter

NoRow == [called |-> FALSE, header |-> <<>>, row |-> <<>>]

\* createDataRow never called
RowOff ==
    /\ rowEntry = [date |-> Null, amount |-> Null, category |-> Null, description |-> Null,
                   bank |-> Null]
    /\ rowUserId = Null /\ rowOut = NoRow

\* getEmails never called
FetchOff ==
    /\ fetList = <<>> /\ fetI = 0 /\ fetArrived = <<>> /\ fetFailed = {}
    /\ fetEmails = <<>> /\ fetPc = "done" /\ fetBusy = 0 /\ fetHandled = <<>>
    /\ fetReordered = FALSE

\* insertTransaction never called
InsertOff ==
    /\ insTable = <<>> /\ insPc = <<>> /\ insTx = <<>> /\ insCalls = <<>>
    /\ insRaced = FALSE

MoreOff == NotifyOff /\ AccountsOff /\ KeywordsOff /\ ParseOff /\ ExtractOff /\ SingleFlightOff /\ ShutdownOff /\ RowOff /\ FetchOff /\ InsertOff

VARIABLES
    impl,                  \* "node" (Sheets orchestrator) or "worker" (D1 orchestrator)
    notifyEnabled,         \* ENABLE_WHATSAPP_NOTIFICATIONS, as the cycle read it
    thresholdEnv,          \* parseInt(env.BATCH_NOTIFICATION_THRESHOLD) as the cycle read
                           \* it, 0 when unset or not a number
    hasBody,               \* for each message, whether extractEmailBody finds text
    labeled,               \* messages carrying the Processed-Financial label
    sheet,                 \* rows of the spreadsheet
    db,                    \* rows of the D1 transactions table
    pc,                    \* position of processGmailAccount
    cycles,                \* account cycles completed
    emails, idx,           \* the fetched messages and the loop position
    existingData,          \* snapshot returned by getExistingData
    allDataRows, processedTransactions,
    errorCount, duplicateCount, transactionsCount,
    cur,                   \* entry / transaction of the message being handled
    summary,               \* the RunSummary returned by the cycle
    sentIndividual, sentBatch,   \* calls of the two notification functions
    hist,                  \* what was done to the message being handled (or last handled)
    handled,               \* messages of this cycle whose handling has begun
    parseCalls,            \* calls of parseEmailWithGemini in this cycle
    notifyFailed,          \* a notification of this cycle failed (send or session start)
    written                \* transaction rows this cycle added to the ledger

cfgVars == <<impl, hasBody>>
envVars == <<notifyEnabled, thresholdEnv>>
ledgerVars == <<sheet, db>>
loopVars == <<emails, idx, existingData, allDataRows, processedTransactions,
              errorCount, duplicateCount, transactionsCount, cur>>
outVars == <<summary, sentIndividual, sentBatch, written>>
orchVars == <<cfgVars, envVars, labeled, ledgerVars, pc, cycles, loopVars, outVars, hist, handled, parseCalls, notifyFailed>>

outsideDup == <<orchVars, runVars, entryVars, moreVars>>

vars == <<dupVars, orchVars, runVars, entryVars, moreVars>>

outsideNotify == <<dupVars, orchVars, runVars, entryVars, acctVars, kwVars, psVars, mimeVars, sfVars, sdVars, rowVars, fetVars, insVars>>

outsideAccounts == <<dupVars, orchVars, runVars, entryVars, waVars, kwVars, psVars, mimeVars, sfVars, sdVars, rowVars, fetVars, insVars>>

outsideKeywords == <<dupVars, orchVars, runVars, entryVars, waVars, acctVars, psVars, mimeVars, sfVars, sdVars, rowVars, fetVars, insVars>>

outsideParse == <<dupVars, orchVars, runVars, entryVars, waVars, acctVars, kwVars, mimeVars, sfVars, sdVars, rowVars, fetVars, insVars>>

outsideExtract == <<dupVars, orchVars, runVars, entryVars, waVars, acctVars, kwVars, psVars, sfVars, sdVars, rowVars, fetVars, insVars>>

outsideSingleFlight == <<dupVars, orchVars, runVars, entryVars, waVars, acctVars, kwVars, psVars, mimeVars, sdVars, rowVars, fetVars, insVars>>

outsideShutdown == <<dupVars, orchVars, calls, active, entryVars, waVars, acctVars, kwVars, psVars, mimeVars, sfVars, rowVars, fetVars, insVars>>

outsideRow == <<dupVars, orchVars, runVars, entryVars, waVars, acctVars, kwVars, psVars, mimeVars, sfVars, sdVars, fetVars, insVars>>

outsideFetch == <<dupVars, orchVars, runVars, entryVars, waVars, acctVars, kwVars, psVars, mimeVars, sfVars, sdVars, rowVars, insVars>>

outsideInsert == <<dupVars, orchVars, runVars, entryVars, waVars, acctVars, kwVars, psVars, mimeVars, sfVars, sdVars, rowVars, fetVars>>

(***************************************************************************)
(* Configuration.                                                           *)
(***************************************************************************)
DefaultThreshold == 5

\* parseInt(process.env.BATCH_NOTIFICATION_THRESHOLD) || 5
BATCH_NOTIFICATION_THRESHOLD == IF thresholdEnv = 0 THEN DefaultThreshold ELSE thresholdEnv

ThresholdSettings == {0, 1}

MsgIds == 1..MaxEmails

(***************************************************************************)
(* What the parser hands to the orchestrator: null (ParseFailure) or a      *)
(* record whose amount may be null.                                         *)
(***************************************************************************)
ParsedSet == [date : {Str(<<"1">>)}, amount : {Null, Num(5)},
              category : {Str(<<"m">>)}, description : {Str(<<"a">>)},
              bank : {Str(<<"J">>), Str(<<"M">>)}]

Today == Str(<<"2">>)

NoEntry == [date |-> Null, amount |-> Null, category |-> Null, description |-> Null,
            bank |-> Null]

NoSummary == [processed |-> -1, duplicates |-> -1, errors |-> -1]

Summary(p, d, e) == [processed |-> p, duplicates |-> d, errors |-> e]

NoHist == [msg |-> 0, extracted |-> "none", parsed |-> "none", errs |-> 0, labelCalls |-> 0,
           verdict |-> "none", threw |-> FALSE, finished |-> FALSE]

\* the unlabeled messages, in list order
RECURSIVE Unlabeled(_)
Unlabeled(m) == IF m > MaxEmails THEN <<>>
                ELSE (IF m \in labeled THEN <<>> ELSE <<m>>) \o Unlabeled(m + 1)

(***************************************************************************)
(* Sheets service.                                                          *)
(***************************************************************************)
getHeaderRow == [date |-> Str(<<"Date">>), amount |-> Str(<<"Amount">>),
                 category |-> Str(<<"Category">>), description |-> Str(<<"Description">>)]

createDataRow(transactionData) ==
    [date |-> OrElse(transactionData.date, Today),
     amount |-> OrElse(transactionData.amount, Num(0)),
     category |-> OrElse(transactionData.category, Str(<<"Lainnya">>)),
     description |-> OrElse(transactionData.description, Str(<<>>))]

\* a row as the sheet keeps and returns it: every cell as a string
SheetRow(row) == [date |-> SheetCell(row.date), amount |-> SheetCell(row.amount),
                  category |-> SheetCell(row.category),
                  description |-> SheetCell(row.description)]

\* getExistingData: nothing when the sheet has at most one row, else every
\* row after the first, with blank cells as ''
getExistingData(values) ==
    IF Len(values) <= 1 THEN <<>>
    ELSE [i \in 1..(Len(values) - 1) |->
            [date |-> OrElse(values[i + 1].date, Str(<<>>)),
             amount |-> OrElse(values[i + 1].amount, Str(<<>>)),
             category |-> OrElse(values[i + 1].category, Str(<<>>)),
             description |-> OrElse(values[i + 1].description, Str(<<>>))]]

\* the rows appendToSheet sends to the sheet
rowsToAppend(dataRows, skipHeader) ==
    IF skipHeader /\ Len(dataRows) > 1 THEN Tail(dataRows) ELSE dataRows

appendToSheet(values, dataRows, skipHeader) ==
    values \o [i \in 1..Len(rowsToAppend(dataRows, skipHeader)) |->
                 SheetRow(rowsToAppend(dataRows, skipHeader)[i])]

(***************************************************************************)
(* processGmailAccount of the Node (Sheets) orchestrator.                   *)
(***************************************************************************)
IsNode == impl = "node"

EmptyOffset == IF existingData = <<>> THEN 1 ELSE 0

\* leave the handling of message idx: next message, or the end of the loop
Advance(after) ==
    IF idx = Len(emails)
    THEN /\ pc' = after
         /\ idx' = idx
    ELSE /\ pc' = "extract"
         /\ idx' = idx + 1

AfterFailure_Break(after) ==
    /\ pc' = after
    /\ idx' = idx

\* a message that failed is left by `continue` or through the per-message
\* catch: the loop goes on with the next message
AfterFailure(after) == Advance(after)

SummaryAfterNotify_Propagates(failed) ==
    IF failed THEN Summary(0, 0, 1)
    ELSE Summary(transactionsCount, duplicateCount, errorCount)

\* the summary returned after the notification step: the send functions
\* swallow every failure, so the counts of the loop are returned as they are
SummaryAfterNotify(failed) == Summary(transactionsCount, duplicateCount, errorCount)

Note(field, value) == hist' = [hist EXCEPT ![field] = value]

\* the outer catch of processGmailAccount
NodeAccountFailure ==
    /\ summary' = Summary(0, 0, 1)
    /\ pc' = "failed"

NodeStart ==
    /\ IsNode /\ pc = "idle" /\ cycles < MaxCycles
    /\ \/ \* authenticateGmail or authenticateSheets throws
          /\ NodeAccountFailure
          /\ UNCHANGED <<emails, idx, existingData, allDataRows>>
       \/ \* getEmails finds nothing (or fails and returns [])
          /\ summary' = Summary(0, 0, 0)
          /\ pc' = "done"
          /\ UNCHANGED <<emails, idx, existingData, allDataRows>>
       \/ /\ Unlabeled(1) # <<>>
          /\ emails' = Unlabeled(1)
          /\ idx' = 1
          /\ \E ok \in BOOLEAN :
                existingData' = IF ok THEN getExistingData(sheet) ELSE <<>>
          /\ allDataRows' = IF existingData' = <<>> THEN <<getHeaderRow>> ELSE <<>>
          /\ pc' = "extract"
          /\ UNCHANGED summary
    /\ UNCHANGED <<outsideCycle, notifyFailed, cfgVars, envVars, labeled, ledgerVars, cycles, processedTransactions,
                   errorCount, duplicateCount, transactionsCount, cur,
                   sentIndividual, sentBatch, written, hist, handled, parseCalls>>

NodeExtract ==
    /\ IsNode /\ pc = "extract"
    /\ handled' = handled + 1
    /\ UNCHANGED parseCalls
    /\ IF hasBody[emails[idx]]
       THEN /\ pc' = "parse"
            /\ hist' = [NoHist EXCEPT !.msg = emails[idx], !.extracted = "text"]
            /\ UNCHANGED <<idx, errorCount>>
       ELSE /\ errorCount' = errorCount + 1
            /\ hist' = [NoHist EXCEPT !.msg = emails[idx], !.extracted = "empty",
                                      !.errs = 1, !.finished = TRUE]
            /\ AfterFailure("persist")
    /\ UNCHANGED <<outsideCycle, notifyFailed, cfgVars, envVars, labeled, ledgerVars, cycles, emails, existingData,
                   allDataRows, processedTransactions, duplicateCount,
                   transactionsCount, cur, outVars>>

NodeParse ==
    /\ IsNode /\ pc = "parse"
    /\ parseCalls' = parseCalls + 1
    /\ \/ \* initializeGemini throws: caught by the per-message catch
          /\ errorCount' = errorCount + 1
          /\ hist' = [hist EXCEPT !.threw = TRUE, !.errs = @ + 1, !.finished = TRUE]
          /\ AfterFailure("persist")
          /\ UNCHANGED cur
       \/ \* parseEmailWithGemini returns null
          /\ errorCount' = errorCount + 1
          /\ hist' = [hist EXCEPT !.parsed = "null", !.errs = @ + 1]
          /\ pc' = "label"
          /\ UNCHANGED <<idx, cur>>
       \/ \E parsedData \in ParsedSet :
          /\ cur' = [createDataRow(parsedData) EXCEPT !.amount = OrElse(parsedData.amount, Num(0))]
                       @@ [bank |-> Null]
          /\ Note("parsed", "ok")
          /\ pc' = "dedupe"
          /\ UNCHANGED <<idx, errorCount>>
    /\ UNCHANGED <<outsideCycle, notifyFailed, cfgVars, envVars, labeled, ledgerVars, cycles, emails, existingData,
                   allDataRows, processedTransactions, duplicateCount,
                   transactionsCount, outVars, handled>>

NodeDedupe ==
    /\ IsNode /\ pc = "dedupe"
    /\ IF isDuplicate(cur, existingData)
       THEN /\ duplicateCount' = duplicateCount + 1
            /\ Note("verdict", "dup")
            /\ UNCHANGED <<allDataRows, processedTransactions>>
       ELSE /\ allDataRows' = Append(allDataRows, createDataRow(cur))
            /\ processedTransactions' = Append(processedTransactions, cur)
            /\ Note("verdict", "new")
            /\ UNCHANGED duplicateCount
    /\ pc' = "label"
    /\ UNCHANGED <<outsideCycle, notifyFailed, cfgVars, envVars, labeled, ledgerVars, cycles, emails, idx, existingData,
                   errorCount, transactionsCount, cur, outVars, handled, parseCalls>>

\* markEmailProcessed of the Node Gmail service: failures are swallowed
NodeLabel ==
    /\ IsNode /\ pc = "label"
    /\ \E ok \in BOOLEAN :
          labeled' = IF ok THEN labeled \cup {emails[idx]} ELSE labeled
    /\ hist' = [hist EXCEPT !.labelCalls = @ + 1, !.finished = TRUE]
    /\ Advance("persist")
    /\ cur' = NoEntry
    /\ UNCHANGED <<outsideCycle, notifyFailed, cfgVars, envVars, ledgerVars, cycles, emails, existingData, allDataRows,
                   processedTransactions, errorCount, duplicateCount,
                   transactionsCount, outVars, handled, parseCalls>>

NodePersist ==
    /\ IsNode /\ pc = "persist"
    /\ notifyEnabled' \in BOOLEAN
    /\ thresholdEnv' \in ThresholdSettings
    /\ IF Len(allDataRows) > EmptyOffset
       THEN \/ \* appendToSheet throws: the outer catch
               /\ NodeAccountFailure
               /\ UNCHANGED <<sheet, transactionsCount, written>>
            \/ /\ sheet' = appendToSheet(sheet, allDataRows, existingData # <<>>)
               /\ written' = Cardinality({i \in (Len(sheet) + 1)..Len(sheet') :
                                              sheet'[i] # getHeaderRow})
               /\ transactionsCount' = Len(allDataRows) - EmptyOffset
               /\ IF notifyEnabled' /\ transactionsCount' > 0
                  THEN pc' = "notify" /\ UNCHANGED summary
                  ELSE /\ summary' = Summary(transactionsCount', duplicateCount, errorCount)
                       /\ pc' = "done"
       ELSE /\ summary' = Summary(0, duplicateCount, errorCount)
            /\ pc' = "done"
            /\ UNCHANGED <<sheet, transactionsCount, written>>
    /\ UNCHANGED <<outsideCycle, notifyFailed, cfgVars, labeled, db, cycles, emails, idx, existingData, allDataRows,
                   processedTransactions, errorCount, duplicateCount, cur,
                   sentIndividual, sentBatch, hist, handled, parseCalls>>

NodeNotify ==
    /\ IsNode /\ pc = "notify"
    /\ IF transactionsCount > BATCH_NOTIFICATION_THRESHOLD
       THEN /\ sentBatch' = sentBatch + 1
            /\ UNCHANGED sentIndividual
       ELSE /\ sentIndividual' = sentIndividual + Len(processedTransactions)
            /\ UNCHANGED sentBatch
    /\ \E failed \in BOOLEAN :
          /\ notifyFailed' = failed
          /\ summary' = SummaryAfterNotify(failed)
    /\ pc' = "done"
    /\ UNCHANGED <<outsideCycle, cfgVars, envVars, labeled, ledgerVars, cycles, loopVars, written, hist, handled, parseCalls>>

(***************************************************************************)
(* processGmailAccount of the Worker (D1) orchestrator.                     *)
(***************************************************************************)
IsWorker == impl = "worker"

\* the TransactionInput built from the parse result
WorkerTransaction(parsedData) ==
    [date |-> OrElse(parsedData.date, Today),
     amount |-> OrElse(parsedData.amount, Num(0)),
     category |-> OrElse(parsedData.category, Str(<<"Lainnya">>)),
     description |-> OrElse(parsedData.description, Str(<<>>)),
     bank |-> OrElse(parsedData.bank, Str(<<"Tidak Diketahui">>))]

WorkerStart ==
    /\ IsWorker /\ pc = "idle" /\ cycles < MaxCycles
    /\ \/ \* no OAuth token, or getEmails throws: summary.errors = 1
          /\ summary' = Summary(0, 0, 1)
          /\ pc' = "failed"
          /\ UNCHANGED <<emails, idx>>
       \/ \* getEmails returns no message
          /\ summary' = Summary(0, 0, 0)
          /\ pc' = "done"
          /\ UNCHANGED <<emails, idx>>
       \/ /\ Unlabeled(1) # <<>>
          /\ emails' = Unlabeled(1)
          /\ idx' = 1
          /\ pc' = "extract"
          /\ UNCHANGED summary
    /\ UNCHANGED <<outsideCycle, notifyFailed, cfgVars, envVars, labeled, ledgerVars, cycles, existingData,
                   allDataRows, processedTransactions,
                   errorCount, duplicateCount, transactionsCount, cur,
                   sentIndividual, sentBatch, written, hist, handled, parseCalls>>

WorkerExtract ==
    /\ IsWorker /\ pc = "extract"
    /\ handled' = handled + 1
    /\ UNCHANGED parseCalls
    /\ IF hasBody[emails[idx]]
       THEN /\ pc' = "parse"
            /\ hist' = [NoHist EXCEPT !.msg = emails[idx], !.extracted = "text"]
            /\ UNCHANGED errorCount
       ELSE /\ errorCount' = errorCount + 1
            /\ hist' = [NoHist EXCEPT !.msg = emails[idx], !.extracted = "empty", !.errs = 1]
            /\ pc' = "label"
    /\ UNCHANGED <<outsideCycle, notifyFailed, cfgVars, envVars, labeled, ledgerVars, cycles, emails, idx,
                   existingData, allDataRows, processedTransactions, duplicateCount,
                   transactionsCount, cur, outVars>>

WorkerParse ==
    /\ IsWorker /\ pc = "parse"
    /\ parseCalls' = parseCalls + 1
    /\ \/ \* parseEmailWithGemini returns null
          /\ errorCount' = errorCount + 1
          /\ hist' = [hist EXCEPT !.parsed = "null", !.errs = @ + 1]
          /\ pc' = "label"
          /\ UNCHANGED cur
       \/ \E parsedData \in ParsedSet :
          /\ cur' = WorkerTransaction(parsedData)
          /\ Note("parsed", "ok")
          /\ pc' = "insert"
          /\ UNCHANGED errorCount
    /\ UNCHANGED <<outsideCycle, notifyFailed, cfgVars, envVars, labeled, ledgerVars, cycles, emails, idx,
                   existingData, allDataRows, processedTransactions, duplicateCount,
                   transactionsCount, outVars, handled>>

\* insertTransaction and the orchestrator's handling of its result
WorkerInsert ==
    /\ IsWorker /\ pc = "insert"
    /\ \/ \* the SELECT or the INSERT throws: the per-message catch
          /\ errorCount' = errorCount + 1
          /\ hist' = [hist EXCEPT !.verdict = "failed", !.threw = TRUE, !.errs = @ + 1,
                                  !.finished = TRUE]
          /\ AfterFailure("notify")
          /\ cur' = NoEntry
          /\ UNCHANGED <<db, duplicateCount, transactionsCount, processedTransactions, written>>
       \/ /\ D1Existing(cur, db)
          /\ duplicateCount' = duplicateCount + 1
          /\ Note("verdict", "dup")
          /\ pc' = "label"
          /\ UNCHANGED <<db, errorCount, transactionsCount, processedTransactions, written,
                         idx, cur>>
       \/ /\ ~D1Existing(cur, db)
          /\ db' = Append(db, cur)
          /\ written' = written + 1
          /\ transactionsCount' = transactionsCount + 1
          /\ processedTransactions' = Append(processedTransactions, cur)
          /\ Note("verdict", "new")
          /\ pc' = "label"
          /\ UNCHANGED <<errorCount, duplicateCount, idx, cur>>
    /\ UNCHANGED <<outsideCycle, notifyFailed, cfgVars, envVars, labeled, sheet, cycles, emails,
                   existingData, allDataRows, summary, sentIndividual, sentBatch, handled, parseCalls>>

\* markEmailProcessed of the Worker Gmail service
WorkerLabel ==
    /\ IsWorker /\ pc = "label"
    /\ \/ \* getGmailAccessToken throws before the try: the per-message catch
          /\ errorCount' = errorCount + 1
          /\ hist' = [hist EXCEPT !.labelCalls = @ + 1, !.threw = TRUE, !.errs = @ + 1,
                                  !.finished = TRUE]
          /\ UNCHANGED labeled
       \/ \* the label is added, or the modify request fails and is only logged
          /\ \E ok \in BOOLEAN :
                labeled' = IF ok THEN labeled \cup {emails[idx]} ELSE labeled
          /\ hist' = [hist EXCEPT !.labelCalls = @ + 1, !.finished = TRUE]
          /\ UNCHANGED errorCount
    /\ Advance("notify")
    /\ cur' = NoEntry
    /\ UNCHANGED <<outsideCycle, notifyFailed, cfgVars, envVars, ledgerVars, cycles, emails, existingData,
                   allDataRows, processedTransactions, duplicateCount,
                   transactionsCount, outVars, handled, parseCalls>>

WorkerNotify ==
    /\ IsWorker /\ pc = "notify"
    /\ notifyEnabled' \in BOOLEAN
    /\ thresholdEnv' \in ThresholdSettings
    /\ IF transactionsCount > 0
       THEN IF ~notifyEnabled'
               THEN UNCHANGED <<sentIndividual, sentBatch>>
               ELSE IF transactionsCount > (IF thresholdEnv' = 0 THEN DefaultThreshold
                                            ELSE thresholdEnv')
                    THEN /\ sentBatch' = sentBatch + 1
                         /\ UNCHANGED sentIndividual
                    ELSE /\ sentIndividual' = sentIndividual + Len(processedTransactions)
                         /\ UNCHANGED sentBatch
       ELSE UNCHANGED <<sentIndividual, sentBatch>>
    /\ \E failed \in BOOLEAN :
          /\ failed => transactionsCount > 0 /\ notifyEnabled'
          /\ notifyFailed' = failed
          /\ summary' = SummaryAfterNotify(failed)
    /\ pc' = "done"
    /\ UNCHANGED <<outsideCycle, cfgVars, labeled, ledgerVars, cycles, loopVars, written,
                   hist, handled, parseCalls>>

\* the cycle has returned its summary; the next poll starts afresh
CycleEnd ==
    /\ pc \in {"done", "failed"}
    /\ pc' = "idle"
    /\ cycles' = cycles + 1
    /\ emails' = <<>> /\ idx' = 0 /\ existingData' = <<>> /\ allDataRows' = <<>>
    /\ processedTransactions' = <<>>
    /\ errorCount' = 0 /\ duplicateCount' = 0 /\ transactionsCount' = 0
    /\ cur' = NoEntry
    /\ summary' = NoSummary
    /\ sentIndividual' = 0 /\ sentBatch' = 0 /\ written' = 0
    /\ hist' = NoHist /\ handled' = 0 /\ parseCalls' = 0 /\ notifyFailed' = FALSE
    /\ notifyEnabled' = FALSE /\ thresholdEnv' = 0
    /\ UNCHANGED <<outsideCycle, cfgVars, labeled, ledgerVars>>

OrchIdle ==
    /\ notifyEnabled = FALSE /\ thresholdEnv = 0
    /\ labeled = {}
    /\ pc = "idle" /\ cycles = 0
    /\ emails = <<>> /\ idx = 0 /\ existingData = <<>> /\ allDataRows = <<>>
    /\ processedTransactions = <<>>
    /\ errorCount = 0 /\ duplicateCount = 0 /\ transactionsCount = 0
    /\ cur = NoEntry
    /\ summary = NoSummary
    /\ sentIndividual = 0 /\ sentBatch = 0 /\ written = 0
    /\ hist = NoHist /\ handled = 0 /\ parseCalls = 0 /\ notifyFailed = FALSE

\* the spreadsheet before the first cycle: without rows, or prepared with the
\* header row only
InitialSheets == {<<>>, <<SheetRow(getHeaderRow)>>}

InitOrch ==
    /\ impl \in {"node", "worker"}
    /\ hasBody \in [MsgIds -> BOOLEAN]
    /\ sheet \in IF impl = "node" THEN InitialSheets ELSE {<<>>}
    /\ db = <<>>
    /\ OrchIdle

OrchOff ==
    /\ impl = "node"
    /\ hasBody = [m \in MsgIds |-> TRUE]
    /\ sheet = <<>> /\ db = <<>>
    /\ OrchIdle

\* candidates handed to the resolvers
DupCandidates == [date : {Str(<<"1">>)}, amount : {Num(0), Num(5)},
                  category : {Str(<<"m">>)},
                  description : {Str(<<"a">>), Str(<<"A", " ">>)},
                  bank : {Str(<<"J">>), Str(<<"M">>)}]

\* rows already recorded
DupRows == [date : {Str(<<"1">>), Str(<<"2">>)}, amount : {Num(0), Num(5)},
            category : {Str(<<"m">>), Str(<<"n">>)},
            description : {Str(<<"a">>), Str(<<"b">>)},
            bank : {Str(<<"J">>), Str(<<"M">>)}]

NoVerdict == [sheets |-> "none", d1 |-> "none"]

Verdicts(cand, ledger) ==
    [sheets |-> IF isDuplicate(cand, SheetView(ledger)) THEN "dup" ELSE "new",
     d1 |-> IF D1Existing(cand, ledger) THEN "dup" ELSE "new"]

InitDup == /\ dupCand \in DupCandidates
           /\ dupLedger = <<>>
           /\ dupVerdict = NoVerdict
           /\ dupPrev = NoVerdict
           /\ OrchOff /\ RunnerOff /\ EntryOff /\ MoreOff

DupAddExisting ==
    /\ dupVerdict = NoVerdict
    /\ Len(dupLedger) < MaxExisting
    /\ \E r \in DupRows : dupLedger' = Append(dupLedger, r)
    /\ UNCHANGED <<dupCand, dupVerdict, dupPrev, outsideDup>>

DupCheck ==
    /\ dupVerdict = NoVerdict
    /\ dupVerdict' = Verdicts(dupCand, dupLedger)
    /\ UNCHANGED <<dupCand, dupLedger, dupPrev, outsideDup>>

DupChangeBank ==
    /\ dupVerdict # NoVerdict
    /\ dupPrev = NoVerdict
    /\ \E b \in {Str(<<"J">>), Str(<<"M">>)} :
          /\ b # dupCand.bank
          /\ dupCand' = [dupCand EXCEPT !.bank = b]
    /\ dupPrev' = dupVerdict
    /\ dupVerdict' = Verdicts(dupCand', dupLedger)
    /\ UNCHANGED <<dupLedger, outsideDup>>

NextDup == DupAddExisting \/ DupCheck \/ DupChangeBank

SpecDup == InitDup /\ [][NextDup]_vars

DupOff ==
    /\ dupCand = NoEntry /\ dupLedger = <<>> /\ dupVerdict = NoVerdict /\ dupPrev = NoVerdict

Init == InitOrch /\ DupOff /\ RunnerOff /\ EntryOff /\ MoreOff

Next ==
    \/ NodeStart \/ NodeExtract \/ NodeParse \/ NodeDedupe \/ NodeLabel
    \/ NodePersist \/ NodeNotify
    \/ WorkerStart \/ WorkerExtract \/ WorkerParse \/ WorkerInsert \/ WorkerLabel
    \/ WorkerNotify
    \/ CycleEnd

Spec == Init /\ [][Next]_vars

(***************************************************************************)
(* The continuous Node runner: startEmailMonitoring calls processEmailsOnce *)
(* once, awaits it, and then arms a timer whose every tick calls it again.  *)
(* JavaScript runs a callback to its next await without interleaving, so    *)
(* the test of isProcessing, its assignment and the call of                 *)
(* processAllAccounts are one step, and so is the continuation after the    *)
(* await down to the finally block.                                         *)
(***************************************************************************)
MaxTicks == 4

\* The value of isProcessing after an invocation that found it set: the
\* return of lines 119-122 is outside the try, so the finally is not run.
FlagAfterSkip_InsideTry(flag) == FALSE

FlagAfterSkip(flag) == flag

\* The value of isProcessing after the await of processAllAccounts settled:
\* the assignment is in the finally block, run after the try and the catch.
FlagAfterCycle_ReturnOnly(threw) == threw

FlagAfterCycle(threw) == FALSE

\* processEmailsOnce from its entry to its first await; sawActive records
\* whether a call of processAllAccounts was in progress on arrival.
processEmailsOnce ==
    IF isProcessing
    THEN /\ calls' = Append(calls, [state |-> "skipped", sawActive |-> active > 0])
         /\ isProcessing' = FlagAfterSkip(isProcessing)
         /\ UNCHANGED active
    ELSE /\ calls' = Append(calls, [state |-> "running", sawActive |-> active > 0])
         /\ isProcessing' = TRUE
         /\ active' = active + 1

RunnerStartup ==
    /\ calls = <<>> /\ ~emailCheckInterval
    /\ processEmailsOnce
    /\ UNCHANGED <<emailCheckInterval, dupVars, orchVars, entryVars, moreVars>>

RunnerSetInterval ==
    /\ ~emailCheckInterval
    /\ calls # <<>> /\ calls[1].state # "running"
    /\ emailCheckInterval' = TRUE
    /\ UNCHANGED <<isProcessing, calls, active, dupVars, orchVars, entryVars, moreVars>>

RunnerTick ==
    /\ emailCheckInterval
    /\ Len(calls) < MaxTicks + 1
    /\ processEmailsOnce
    /\ UNCHANGED <<emailCheckInterval, dupVars, orchVars, entryVars, moreVars>>

\* processAllAccounts resolves: the summary is logged, the finally runs
RunnerCycleResolves ==
    \E i \in 1..Len(calls) :
        /\ calls[i].state = "running"
        /\ calls' = [calls EXCEPT ![i].state = "done"]
        /\ active' = active - 1
        /\ isProcessing' = FlagAfterCycle(FALSE)
        /\ UNCHANGED <<emailCheckInterval, dupVars, orchVars, entryVars, moreVars>>

\* processAllAccounts rejects: the catch logs, the finally runs
RunnerCycleRejects ==
    \E i \in 1..Len(calls) :
        /\ calls[i].state = "running"
        /\ calls' = [calls EXCEPT ![i].state = "failed"]
        /\ active' = active - 1
        /\ isProcessing' = FlagAfterCycle(TRUE)
        /\ UNCHANGED <<emailCheckInterval, dupVars, orchVars, entryVars, moreVars>>

InitRunner == RunnerOff /\ OrchOff /\ DupOff /\ EntryOff /\ MoreOff

NextRunner ==
    \/ RunnerStartup \/ RunnerSetInterval \/ RunnerTick
    \/ RunnerCycleResolves \/ RunnerCycleRejects

SpecRunner == InitRunner /\ [][NextRunner]_vars

(***************************************************************************)
(* The Worker's entry points.  POST /trigger hands processAllAccounts(env)  *)
(* to ctx.waitUntil and answers 202 at once; scheduled validates the        *)
(* configuration and awaits processAllAccounts(env).  Neither looks at any  *)
(* shared state before starting the cycle.                                  *)
(***************************************************************************)
MaxRuns == 4

FetchTrigger ==
    /\ Len(runs) < MaxRuns
    /\ runs' = Append(runs, [kind |-> "trigger", state |-> "running"])
    /\ workerActive' = workerActive + 1
    /\ UNCHANGED <<dupVars, orchVars, runVars, moreVars>>

Scheduled ==
    /\ Len(runs) < MaxRuns
    /\ \E valid \in BOOLEAN :
          IF valid
          THEN /\ runs' = Append(runs, [kind |-> "cron", state |-> "running"])
               /\ workerActive' = workerActive + 1
          ELSE /\ runs' = Append(runs, [kind |-> "cron", state |-> "invalid"])
               /\ UNCHANGED workerActive
    /\ UNCHANGED <<dupVars, orchVars, runVars, moreVars>>

\* a cycle ends, by resolution or by rejection of processAllAccounts(env)
WorkerCycleEnds ==
    \E i \in 1..Len(runs) :
        /\ runs[i].state = "running"
        /\ \E outcome \in {"done", "failed"} :
              runs' = [runs EXCEPT ![i].state = outcome]
        /\ workerActive' = workerActive - 1
        /\ UNCHANGED <<dupVars, orchVars, runVars, moreVars>>

InitWorkerEntry == EntryOff /\ OrchOff /\ DupOff /\ RunnerOff /\ MoreOff

NextWorkerEntry == FetchTrigger \/ Scheduled \/ WorkerCycleEnds

SpecWorkerEntry == InitWorkerEntry /\ [][NextWorkerEntry]_vars

(***************************************************************************)
(* The WhatsApp service.  A target is a number: 0 is the group, i >= 1 is   *)
(* the i-th valid phone number of the configuration.                        *)
(***************************************************************************)
MaxPhones == 2

GroupTarget == 0

RECURSIVE PhoneTargets(_)
PhoneTargets(k) == IF k = 0 THEN <<>> ELSE Append(PhoneTargets(k - 1), k)

\* buildNotificationTargets: every phone number, then the group
buildNotificationTargets ==
    PhoneTargets(waPhones) \o (IF waGroup THEN <<GroupTarget>> ELSE <<>>)

\* buildBatchTargets of the Node service: the group alone when it is
\* configured, otherwise every phone number
buildBatchTargets ==
    IF waGroup THEN <<GroupTarget>> ELSE PhoneTargets(waPhones)

\* the Worker's choice: targets.find(t => t.type === "group") || targets[0]
WorkerBatchTarget(targets) ==
    IF \E i \in 1..Len(targets) : targets[i] = GroupTarget
    THEN <<GroupTarget>>
    ELSE <<targets[1]>>

RemainingTargets_StopOnFailure(ok, rest) == IF ok THEN rest ELSE <<>>

\* the delivery loop after one send: a failure is logged and the loop goes on
RemainingTargets(ok, rest) == rest

\* Entry of a send function down to its delivery loop.  Node returns early
\* without targets and abandons the notification when initializeWhatsApp
\* throws; the Worker's session was started by the orchestrator, which
\* ignores the outcome.
WaEnter(kind, targets) ==
    /\ waKind' = kind
    /\ IF targets = <<>>
       THEN /\ waPc' = "done"
            /\ UNCHANGED <<waSession, waQueue>>
       ELSE \E up \in BOOLEAN :
               /\ waSession' = IF up THEN "up" ELSE "failed"
               /\ IF ~up /\ waImpl = "node"
                  THEN waPc' = "done" /\ UNCHANGED waQueue
                  ELSE waPc' = "sending" /\ waQueue' = targets
    /\ UNCHANGED <<waImpl, waPhones, waGroup, waAttempts, outsideNotify>>

sendWhatsAppNotification ==
    /\ waPc = "idle"
    /\ WaEnter("individual", buildNotificationTargets)

sendBatchWhatsAppNotification ==
    /\ waPc = "idle"
    /\ WaEnter("batch", IF waImpl = "node" THEN buildBatchTargets
                        ELSE IF buildNotificationTargets = <<>> THEN <<>>
                        ELSE WorkerBatchTarget(buildNotificationTargets))

\* one call of sendWAHAMessage, which succeeds or fails
WaDeliver ==
    /\ waPc = "sending" /\ waQueue # <<>>
    /\ \E ok \in BOOLEAN :
          /\ waAttempts' = Append(waAttempts, [target |-> Head(waQueue), ok |-> ok])
          /\ waQueue' = RemainingTargets(ok, Tail(waQueue))
    /\ waPc' = IF waQueue' = <<>> THEN "done" ELSE "sending"
    /\ UNCHANGED <<waImpl, waPhones, waGroup, waKind, waSession, outsideNotify>>

InitNotify ==
    /\ waImpl \in {"node", "worker"}
    /\ waPhones \in 0..MaxPhones
    /\ waGroup \in BOOLEAN
    /\ waPc = "idle" /\ waKind = "none" /\ waSession = "none"
    /\ waQueue = <<>> /\ waAttempts = <<>>
    /\ OrchOff /\ DupOff /\ RunnerOff /\ EntryOff /\ AccountsOff /\ KeywordsOff /\ ParseOff /\ ExtractOff /\ SingleFlightOff /\ ShutdownOff /\ RowOff /\ FetchOff /\ InsertOff

NextNotify == sendWhatsAppNotification \/ sendBatchWhatsAppNotification \/ WaDeliver

SpecNotify == InitNotify /\ [][NextNotify]_vars

(***************************************************************************)
(* Claims about the WhatsApp service (checked under SpecNotify).            *)
(***************************************************************************)
AttemptedTargets == [i \in 1..Len(waAttempts) |-> waAttempts[i].target]

\* C11: a batch notification goes to exactly one recipient, the group when
\* one is configured and otherwise the first phone number only; it is never
\* sent to several phone numbers.
C11_BatchHasOneRecipient ==
    waKind = "batch" =>
        /\ Len(waAttempts) <= 1
        /\ waPc = "done" /\ waAttempts # <<>> =>
              AttemptedTargets = (IF waGroup THEN <<GroupTarget>> ELSE <<1>>)

MaxAccounts == 3

AccountIds == 0..2

Blank == 0

RECURSIVE NonBlank(_)
NonBlank(accounts) ==
    IF accounts = <<>> THEN <<>>
    ELSE (IF Head(accounts) = Blank THEN <<>> ELSE <<Head(accounts)>>) \o NonBlank(Tail(accounts))

AfterAccount_Abort(failed, i) == IF failed THEN Len(GMAIL_ACCOUNTS) + 1 ELSE i + 1

\* the for loop after the summary of entry i was pushed
AfterAccount(failed, i) == i + 1

AccountsInLoop == ~acctReturned /\ acctRunning = 0 /\ acctIdx <= Len(GMAIL_ACCOUNTS)

\* if (accountId.trim()) is false: the entry is passed over
AccountSkipBlank ==
    /\ AccountsInLoop
    /\ GMAIL_ACCOUNTS[acctIdx] = Blank
    /\ acctIdx' = acctIdx + 1
    /\ UNCHANGED <<GMAIL_ACCOUNTS, acctRunning, acctStarted, summaries, acctReturned, outsideAccounts>>

\* await processGmailAccount(accountId.trim()) is called
AccountStart ==
    /\ AccountsInLoop
    /\ GMAIL_ACCOUNTS[acctIdx] # Blank
    /\ acctRunning' = acctIdx
    /\ acctStarted' = Append(acctStarted, acctIdx)
    /\ UNCHANGED <<GMAIL_ACCOUNTS, acctIdx, summaries, acctReturned, outsideAccounts>>

\* processGmailAccount returns: the summary of a cycle, or the one of its
\* outer catch (errors: 1) when the account failed
AccountReturns ==
    /\ acctRunning # 0
    /\ \E failed \in BOOLEAN :
          /\ summaries' = Append(summaries, [accountId |-> GMAIL_ACCOUNTS[acctRunning],
                                             errors |-> IF failed THEN 1 ELSE 0])
          /\ acctIdx' = AfterAccount(failed, acctRunning)
    /\ acctRunning' = 0
    /\ UNCHANGED <<GMAIL_ACCOUNTS, acctStarted, acctReturned, outsideAccounts>>

\* the loop is over: the totals are logged and summaries is returned
AccountsReturn ==
    /\ ~acctReturned /\ acctRunning = 0 /\ acctIdx > Len(GMAIL_ACCOUNTS)
    /\ acctReturned' = TRUE
    /\ UNCHANGED <<GMAIL_ACCOUNTS, acctIdx, acctRunning, acctStarted, summaries, outsideAccounts>>

InitAccounts ==
    /\ GMAIL_ACCOUNTS \in UNION {[1..n -> AccountIds] : n \in 0..MaxAccounts}
    /\ acctIdx = 1 /\ acctRunning = 0
    /\ acctStarted = <<>> /\ summaries = <<>> /\ acctReturned = FALSE
    /\ OrchOff /\ DupOff /\ RunnerOff /\ EntryOff /\ NotifyOff /\ KeywordsOff /\ ParseOff /\ ExtractOff /\ SingleFlightOff /\ ShutdownOff /\ RowOff /\ FetchOff /\ InsertOff

NextAccounts == AccountSkipBlank \/ AccountStart \/ AccountReturns \/ AccountsReturn

SpecAccounts == InitAccounts /\ [][NextAccounts]_vars

(***************************************************************************)
(* Claims about processAllAccounts (checked under SpecAccounts).            *)
(***************************************************************************)
SummaryAccounts == [i \in 1..Len(summaries) |-> summaries[i].accountId]

StartedAccounts == [i \in 1..Len(acctStarted) |-> GMAIL_ACCOUNTS[acctStarted[i]]]

\* C14: the accounts are handled one after another in configuration order,
\* one summary is returned per non-blank account, and an account that fails
\* is reported in its own summary without keeping the following accounts
\* from being processed.
C14_EveryAccountInOrder ==
    /\ \A i, j \in 1..Len(acctStarted) : i < j => acctStarted[i] < acctStarted[j]
    /\ Len(acctStarted) = Len(summaries) + (IF acctRunning = 0 THEN 0 ELSE 1)
    /\ SummaryAccounts = SubSeq(StartedAccounts, 1, Len(summaries))
    /\ acctReturned => SummaryAccounts = NonBlank(GMAIL_ACCOUNTS)

\* C14 witness: the first account failed, a blank entry was passed over and
\* the account after it was processed.
C14_Witness ==
    /\ acctReturned /\ Len(summaries) = 2 /\ Len(GMAIL_ACCOUNTS) = 3
    /\ GMAIL_ACCOUNTS[2] = Blank
    /\ summaries[1].errors = 1 /\ summaries[2].errors = 0

(***************************************************************************)
(* determineBankTransactionType (Node and Worker alike).  A text is a       *)
(* sequence of tokens, each a run of characters that no keyword cuts, so    *)
(* that String.prototype.includes is the search for a contiguous run of     *)
(* tokens: "pembayaran" is <<"pem","bayar","an">> and includes "bayar".     *)
(***************************************************************************)
MaxPhrases == 3

\* text.includes(keyword)
Includes(text, keyword) ==
    \E i \in 0..(Len(text) - Len(keyword)) :
        SubSeq(text, i + 1, i + Len(keyword)) = keyword

incomeKeywords ==
    << <<"terima">>, <<"dapat">>, <<"pe", "masuk", "an">>, <<"masuk">>, <<"di", "terima">>,
       <<"gaji">>, <<"bonus">>, <<"transfer", " ", "masuk">>, <<"kredit">>, <<"setoran">>,
       <<"received">>, <<"credit">>, <<"deposit">>, <<"hadiah">> >>

expenseKeywords ==
    << <<"beli">>, <<"bayar">>, <<"belanja">>, <<"peng", "keluar", "an">>, <<"keluar">>,
       <<"di", "bayar">>, <<"transfer", " ", "keluar">>, <<"debit">>, <<"tarik">>,
       <<"withdraw">>, <<"payment">>, <<"purchase">> >>

pembayaran == <<"pem", "bayar", "an">>

penjualan == <<"pen", "jual", "an">>

\* the keywords that turn a "pembayaran" into an expense
PaymentMarkers ==
    << <<"kartu", " ", "kredit">>, <<"credit", " ", "card">>, <<"qris">>, <<"untuk">>,
       <<"tagihan">>, <<"bayar">> >>

AnyIncluded(text, keywords) == \E k \in 1..Len(keywords) : Includes(text, keywords[k])

determineBankTransactionType_KeywordsFirst(bankName, transactionText) ==
    LET lowerText == toLowerCase(transactionText) IN
    IF AnyIncluded(lowerText, incomeKeywords) THEN "income"
    ELSE IF AnyIncluded(lowerText, expenseKeywords) THEN "expense"
    ELSE IF Includes(lowerText, pembayaran)
         THEN (IF AnyIncluded(lowerText, PaymentMarkers) THEN "expense" ELSE "income")
    ELSE IF Includes(lowerText, penjualan) \/ Includes(lowerText, <<"jual">>) THEN "income"
    ELSE "expense"

determineBankTransactionType(bankName, transactionText) ==
    LET lowerText == toLowerCase(transactionText) IN
    IF Includes(lowerText, pembayaran)
    THEN (IF AnyIncluded(lowerText, PaymentMarkers) THEN "expense" ELSE "income")
    ELSE IF Includes(lowerText, penjualan) \/ Includes(lowerText, <<"jual">>) THEN "income"
    ELSE IF AnyIncluded(lowerText, incomeKeywords) THEN "income"
    ELSE IF AnyIncluded(lowerText, expenseKeywords) THEN "expense"
    ELSE "expense"

\* the phrases the description texts are made of
Phrases ==
    { pembayaran, <<"kartu", " ", "kredit">>, penjualan, <<"Pen", "jual", "an">>,
      <<"gaji">>, <<"beli">>, <<"toko">> }

\* the phrases of a list, separated by single spaces
RECURSIVE JoinPhrases(_)
JoinPhrases(ps) ==
    IF ps = <<>> THEN <<>>
    ELSE IF Len(ps) = 1 THEN ps[1]
    ELSE ps[1] \o <<" ">> \o JoinPhrases(Tail(ps))

Texts == {JoinPhrases(ps) : ps \in UNION {[1..n -> Phrases] : n \in 0..MaxPhrases}}

InitKeywords ==
    /\ kwText \in Texts
    /\ kwType = "none"
    /\ OrchOff /\ DupOff /\ RunnerOff /\ EntryOff /\ NotifyOff /\ AccountsOff /\ ParseOff /\ ExtractOff /\ SingleFlightOff /\ ShutdownOff /\ RowOff /\ FetchOff /\ InsertOff

KwDetermine ==
    /\ kwType = "none"
    /\ kwType' = determineBankTransactionType(<<"Jago", " ", "Fara">>, kwText)
    /\ UNCHANGED <<kwText, outsideKeywords>>

NextKeywords == KwDetermine

SpecKeywords == InitKeywords /\ [][NextKeywords]_vars

(***************************************************************************)
(* Claims about the keyword override (checked under SpecKeywords).          *)
(***************************************************************************)
KwLower == toLowerCase(kwText)

HasCreditCardPayment == Includes(KwLower, pembayaran \o <<" ", "kartu", " ", "kredit">>)

BANK_NAMES ==
    << <<"Mandiri", " ", "Wimboro">>, <<"Mandiri", " ", "Fara">>, <<"Seabank", " ", "Fara">>,
       <<"Jago", " ", "Fara">>, <<"Jago", " ", "Wimboro">>, <<"Blu", " ", "Fara">>,
       <<"Blu", " ", "Wimboro">>, <<"Neobank", " ", "Fara">>, <<"Neobank", " ", "Wimboro">> >>

\* BANK_NAMES.includes(bank)
InRegistry(bank) == \E i \in 1..Len(BANK_NAMES) : BANK_NAMES[i] = bank

\* text.split(' ')[0]
FirstWord(text) ==
    IF \E i \in 1..Len(text) : text[i] = " "
    THEN SubSeq(text, 1, (CHOOSE i \in 1..Len(text) :
                            /\ text[i] = " "
                            /\ \A j \in 1..(i - 1) : text[j] # " ") - 1)
    ELSE text

\* the predicate handed to BANK_NAMES.find
BankMatches(bank, bankLower) ==
    \/ Includes(toLowerCase(bank), bankLower)
    \/ Includes(bankLower, FirstWord(toLowerCase(bank)))

\* BANK_NAMES.find(...): the first matching key, or nothing
matchedBank(bankLower) ==
    IF \E i \in 1..Len(BANK_NAMES) : BankMatches(BANK_NAMES[i], bankLower)
    THEN Str(BANK_NAMES[CHOOSE i \in 1..Len(BANK_NAMES) :
                          /\ BankMatches(BANK_NAMES[i], bankLower)
                          /\ \A j \in 1..(i - 1) : ~BankMatches(BANK_NAMES[j], bankLower)])
    ELSE Null

\* "Validate bank name"
ValidateBank(bank) ==
    IF ~Falsy(bank) /\ ~InRegistry(bank.s)
    THEN matchedBank(toLowerCase(bank.s))
    ELSE bank

Abs(n) == IF n < 0 THEN 0 - n ELSE n

Expense == Str(<<"expense">>)

Income == Str(<<"income">>)

\* Math.abs(amount), negated for an expense; a null amount is left alone
SignedAmount(amount, type) ==
    IF amount.t = "null" THEN amount
    ELSE IF type = Expense THEN Num(0 - Abs(amount.n)) ELSE Num(Abs(amount.n))

\* postProcessParsedData of the enhanced parser and of the Worker
postProcessParsedData(parsedData) ==
    LET amount1 == SignedAmount(parsedData.amount, parsedData.transaction_type)
        bank1 == ValidateBank(parsedData.bank)
        check == ~Falsy(bank1) /\ ~Falsy(parsedData.description)
        contextType == Str(<<determineBankTransactionType(bank1.s, parsedData.description.s)>>)
        adjust == check /\ contextType # parsedData.transaction_type
    IN [date |-> parsedData.date,
        amount |-> IF adjust THEN SignedAmount(amount1, contextType) ELSE amount1,
        transaction_type |-> IF adjust THEN contextType ELSE parsedData.transaction_type,
        bank |-> bank1,
        description |-> parsedData.description]

\* the Node parseEmailWithGemini only sets the sign of the amount
normalizeAmount(parsedData) ==
    [parsedData EXCEPT !.amount = SignedAmount(parsedData.amount, parsedData.transaction_type)]

\* "Ensure date is set" of the Worker's postProcessParsedData
WorkerEnsureDate(enhanced) == [enhanced EXCEPT !.date = OrElse(enhanced.date, Today)]

\* the date of the entry the orchestrators build from a parse result
EntryDate(parsedData) == OrElse(parsedData.date, Today)

Faults == {"emptyText", "noApiKey", "callFails", "badEnvelope", "badJson"}

Responses ==
    [date : {Null, Str(<<"2024", "-", "01", "-", "15">>), Str(<<"15", "/", "01", "/", "2024">>)},
     amount : {Null, Num(0), Num(5), Num(0 - 5)},
     transaction_type : {Null, Income, Expense, Str(<<"transfer">>)},
     bank : {Null, Str(<<>>), Str(<<"Jago", " ", "Fara">>), Str(<<"jago">>),
             Str(<<"Bank", " ", "Mandiri">>), Str(<<"Bank", " ", "Mandiri", " ", "Fara">>),
             Str(<<"BCA">>)},
     description : {Null, Str(<<"gaji">>), Str(<<"beli">>)}]

Returned(data) == [kind |-> "ok", data |-> data]

ReturnedNull == [kind |-> "null", data |-> NoResponse]

Threw == [kind |-> "threw", data |-> NoResponse]

\* initializeGemini() of the Node parsers, called before their try block
InitOutcome(fault) == Threw

InitParse ==
    /\ psImpl \in {"enhanced", "basic", "worker"}
    /\ \/ psFault \in Faults /\ psResp = NoResponse
       \/ psFault = "none" /\ psResp \in Responses
    /\ psOut = NotCalled
    /\ OrchOff /\ DupOff /\ RunnerOff /\ EntryOff /\ NotifyOff /\ AccountsOff /\ KeywordsOff /\ ExtractOff /\ SingleFlightOff /\ ShutdownOff /\ RowOff /\ FetchOff /\ InsertOff

parseEmailWithEnhancedGemini ==
    /\ psImpl = "enhanced" /\ psOut = NotCalled
    /\ psOut' = IF psFault = "emptyText" THEN ReturnedNull
                ELSE IF psFault = "noApiKey" THEN InitOutcome(psFault)
                ELSE IF psFault # "none" THEN ReturnedNull
                ELSE Returned(postProcessParsedData(psResp))
    /\ UNCHANGED <<psImpl, psFault, psResp, outsideParse>>

parseEmailWithGemini ==
    /\ psImpl = "basic" /\ psOut = NotCalled
    /\ psOut' = IF psFault = "emptyText" THEN ReturnedNull
                ELSE IF psFault = "noApiKey" THEN InitOutcome(psFault)
                ELSE IF psFault # "none" THEN ReturnedNull
                ELSE Returned(normalizeAmount(psResp))
    /\ UNCHANGED <<psImpl, psFault, psResp, outsideParse>>

WorkerParseEmailWithGemini ==
    /\ psImpl = "worker" /\ psOut = NotCalled
    /\ psOut' = IF psFault # "none" THEN ReturnedNull
                ELSE Returned(WorkerEnsureDate(postProcessParsedData(psResp)))
    /\ UNCHANGED <<psImpl, psFault, psResp, outsideParse>>

NextParse ==
    \/ parseEmailWithEnhancedGemini
    \/ parseEmailWithGemini
    \/ WorkerParseEmailWithGemini

SpecParse == InitParse /\ [][NextParse]_vars

(***************************************************************************)
(* Claims about the parsers (checked under SpecParse).                      *)
(***************************************************************************)
Success == psOut.kind = "ok"

\* C15: every transaction returned as a success has amount < 0 exactly when
\* transaction_type is expense and amount > 0 exactly when it is income
\* (an amount of 0 is set aside).
C15_SignAgreesWithType ==
    Success /\ psOut.data.amount # Num(0) =>
        LET amount == psOut.data.amount
            type == psOut.data.transaction_type
        IN /\ (amount.t = "num" /\ amount.n < 0) <=> type = Expense
           /\ (amount.t = "num" /\ amount.n > 0) <=> type = Income

\* The sign does agree whenever the type is one of the two and there is an amount.
SignAgreesForValidType ==
    /\ Success
    /\ psOut.data.amount.t = "num" /\ psOut.data.amount.n # 0
    /\ psOut.data.transaction_type \in {Income, Expense}
    => (psOut.data.amount.n < 0 <=> psOut.data.transaction_type = Expense)

\* C16: a parse result returned as success has transaction_type income or expense.
C16_TypeIsIncomeOrExpense ==
    Success => psOut.data.transaction_type \in {Income, Expense}

\* C19: after post-processing the bank of a parse result is a key of the
\* registry or null.
C19_BankInRegistryOrNull ==
    Success /\ psImpl \in {"enhanced", "worker"} =>
        \/ psOut.data.bank = Null
        \/ psOut.data.bank.t = "str" /\ InRegistry(psOut.data.bank.s)

\* A bank string that is not empty does end as a key or as null.
NonEmptyBankInRegistryOrNull ==
    Success /\ psImpl \in {"enhanced", "worker"} /\ psResp.bank # Str(<<>>) =>
        \/ psOut.data.bank = Null
        \/ psOut.data.bank.t = "str" /\ InRegistry(psOut.data.bank.s)

\* YYYY-MM-DD
IsYMD(s) ==
    /\ Len(s) = 5 /\ s[2] = "-" /\ s[4] = "-"
    /\ s[1] \in {"2024"} /\ s[3] \in {"01"} /\ s[5] \in {"15"}

\* Today stands for new Date().toISOString().split('T')[0], a valid day
IsValidDate(v) == v = Today \/ (v.t = "str" /\ IsYMD(v.s))

\* C26: the date of every transaction handed to persistence is a valid
\* YYYY-MM-DD date: an omitted or malformed one is replaced by the processing day.
C26_PersistedDateIsValid ==
    Success => IsValidDate(EntryDate(psOut.data))

\* an omitted date is replaced by the processing day
OmittedDateIsToday ==
    Success /\ psResp.date = Null => EntryDate(psOut.data) = Today

\* the keyword verdict on the description of the result
KeywordVerdict == Str(<<determineBankTransactionType(<<>>, psOut.data.description.s)>>)

\* C30: whenever a parse result has a description, its final
\* transaction_type is the keyword verdict on that description, whatever the
\* model stated and whether or not a bank was recognized, and the amount
\* carries the sign of that type.
C30_KeywordVerdictWins ==
    Success /\ psImpl \in {"enhanced", "worker"} /\ ~Falsy(psOut.data.description) =>
        /\ psOut.data.transaction_type = KeywordVerdict
        /\ psOut.data.amount = SignedAmount(psResp.amount, KeywordVerdict)

\* with a recognized bank the verdict does win and the sign follows it
KeywordVerdictWinsWithBank ==
    /\ Success /\ psImpl \in {"enhanced", "worker"}
    /\ ~Falsy(psOut.data.description) /\ ~Falsy(psOut.data.bank)
    => /\ psOut.data.transaction_type = KeywordVerdict
       /\ psOut.data.amount = SignedAmount(psResp.amount, KeywordVerdict)

\* the registry keys that the lower-cased bank string contains
KeysContained(bankLower) ==
    {i \in 1..Len(BANK_NAMES) : Includes(bankLower, toLowerCase(BANK_NAMES[i]))}

\* the bank string is no registry key and contains exactly one of them
ContainsOneKey ==
    /\ psResp.bank.t = "str" /\ ~Falsy(psResp.bank) /\ ~InRegistry(psResp.bank.s)
    /\ Cardinality(KeysContained(toLowerCase(psResp.bank.s))) = 1

\* C39: a bank string that is no registry key but contains exactly one key
\* as a case-insensitive substring is normalised to that key, never to the
\* key of another account.
C39_ContainedKeyReturned ==
    Success /\ psImpl \in {"enhanced", "worker"} /\ ContainsOneKey =>
        \E i \in KeysContained(toLowerCase(psResp.bank.s)) :
            psOut.data.bank = Str(BANK_NAMES[i])

\* C20: for every failure condition the parse returns null and does not throw.
C20_FailureReturnsNull ==
    psOut # NotCalled /\ psFault # "none" => psOut = ReturnedNull

(***************************************************************************)
(* extractEmailBody.  A payload node is a leaf (mimeType and body.data) or  *)
(* a multipart node (parts).  body.data is written as the characters it     *)
(* encodes.                                                                 *)
(***************************************************************************)
MaxParts == 2

Leaf(mimeType, data) == [mimeType |-> mimeType, data |-> data, multi |-> FALSE, parts |-> <<>>]

Multipart(parts) == [mimeType |-> "multipart", data |-> Null, multi |-> TRUE, parts |-> parts]

\* Buffer.from(data, 'base64').toString('utf-8') on Node; atob on the Worker,
\* which yields one character per byte
Latin1Bytes(c) == IF c = "é" THEN <<"Ã", "©">> ELSE <<c>>

RECURSIVE AtoB(_)
AtoB(s) == IF s = <<>> THEN <<>> ELSE Latin1Bytes(Head(s)) \o AtoB(Tail(s))

decodeBase64(im, data) == IF im = "node" THEN data ELSE AtoB(data)

IsTag(c) == c \in {"<b>", "</b>", "<script>", "</script>", "<style>", "</style>"}

\* .replace(/<open[^>]*>[\s\S]*?<\/open>/gi, '')
RECURSIVE DropBlocks(_, _, _)
DropBlocks(s, open, close) ==
    IF s = <<>> THEN <<>>
    ELSE IF Head(s) = open /\ \E i \in 2..Len(s) : s[i] = close
         THEN DropBlocks(SubSeq(s, 1 + (CHOOSE i \in 2..Len(s) :
                                          /\ s[i] = close
                                          /\ \A j \in 2..(i - 1) : s[j] # close), Len(s)),
                         open, close)
         ELSE <<Head(s)>> \o DropBlocks(Tail(s), open, close)

\* .replace(/<[^>]*>/g, ' ')
TagsToSpaces(s) == [i \in 1..Len(s) |-> IF IsTag(s[i]) THEN " " ELSE s[i]]

\* .replace(/\s+/g, ' ')
RECURSIVE CollapseSpaces(_)
CollapseSpaces(s) ==
    IF s = <<>> THEN <<>>
    ELSE IF IsSpace(Head(s)) /\ Tail(s) # <<>> /\ IsSpace(Head(Tail(s)))
         THEN CollapseSpaces(Tail(s))
         ELSE <<Head(s)>> \o CollapseSpaces(Tail(s))

extractTextFromHtml(html) ==
    trim(CollapseSpaces(TagsToSpaces(
        DropBlocks(DropBlocks(html, "<script>", "</script>"), "<style>", "</style>"))))

RECURSIVE extractEmailBody(_, _)
RECURSIVE ExtractFromParts(_, _, _)
\* the for loop over payload.parts, from part i on
ExtractFromParts(im, parts, i) ==
    IF i > Len(parts) THEN Null
    ELSE LET part == parts[i] IN
         IF part.mimeType = "text/plain" /\ ~Falsy(part.data)
         THEN Str(decodeBase64(im, part.data.s))
         ELSE IF part.mimeType = "text/html" /\ ~Falsy(part.data)
         THEN Str(extractTextFromHtml(decodeBase64(im, part.data.s)))
         ELSE IF part.multi /\ ~Falsy(extractEmailBody(im, part))
         THEN extractEmailBody(im, part)
         ELSE ExtractFromParts(im, parts, i + 1)

extractEmailBody(im, payload) ==
    IF payload.multi THEN ExtractFromParts(im, payload.parts, 1)
    ELSE IF ~Falsy(payload.data)
         THEN (IF payload.mimeType = "text/html"
               THEN Str(extractTextFromHtml(decodeBase64(im, payload.data.s)))
               ELSE Str(decodeBase64(im, payload.data.s)))
         ELSE Null

Leaves ==
    { Leaf("text/plain", Str(<<"p">>)), Leaf("text/plain", Str(<<"é">>)),
      Leaf("text/plain", Null),
      Leaf("text/html", Str(<<"<style>", "s", "</style>", "<b>", "h", "</b>">>)),
      Leaf("image/png", Str(<<"i">>)) }

PartLists(nodes) == UNION {[1..n -> nodes] : n \in 1..MaxParts}

Nested == {Multipart(ps) : ps \in PartLists(Leaves)}

Payloads == Leaves \cup {Multipart(ps) : ps \in PartLists(Leaves \cup Nested)}

InitExtract ==
    /\ mimeImpl \in {"node", "worker"}
    /\ mimePayload \in Payloads
    /\ mimeOut = NotExtracted
    /\ OrchOff /\ DupOff /\ RunnerOff /\ EntryOff /\ NotifyOff /\ AccountsOff /\ KeywordsOff /\ ParseOff /\ SingleFlightOff /\ ShutdownOff /\ RowOff /\ FetchOff /\ InsertOff

NodeExtractEmailBody ==
    /\ mimeImpl = "node" /\ ~mimeOut.called
    /\ mimeOut' = [called |-> TRUE, value |-> extractEmailBody("node", mimePayload)]
    /\ UNCHANGED <<mimeImpl, mimePayload, outsideExtract>>

WorkerExtractEmailBody ==
    /\ mimeImpl = "worker" /\ ~mimeOut.called
    /\ mimeOut' = [called |-> TRUE, value |-> extractEmailBody("worker", mimePayload)]
    /\ UNCHANGED <<mimeImpl, mimePayload, outsideExtract>>

NextExtract == NodeExtractEmailBody \/ WorkerExtractEmailBody

SpecExtract == InitExtract /\ [][NextExtract]_vars

(***************************************************************************)
(* Claims about extractEmailBody (checked under SpecExtract).               *)
(***************************************************************************)
\* the text/plain and text/html leaves with content, in depth-first order
RECURSIVE LeavesOf(_, _)
RECURSIVE LeavesOfParts(_, _, _)
LeavesOfParts(parts, i, mimeType) ==
    IF i > Len(parts) THEN <<>>
    ELSE LeavesOf(parts[i], mimeType) \o LeavesOfParts(parts, i + 1, mimeType)

LeavesOf(node, mimeType) ==
    IF node.multi THEN LeavesOfParts(node.parts, 1, mimeType)
    ELSE IF node.mimeType = mimeType /\ ~Falsy(node.data) THEN <<node.data>> ELSE <<>>

\* C21: for a multipart body with a text/plain part and a text/html part, in
\* either order and at any depth, extractEmailBody returns the content of
\* the first text/plain part verbatim.
C21_PlainPreferredVerbatim ==
    /\ mimeOut.called /\ mimePayload.multi
    /\ LeavesOf(mimePayload, "text/plain") # <<>>
    /\ LeavesOf(mimePayload, "text/html") # <<>>
    => mimeOut.value = LeavesOf(mimePayload, "text/plain")[1]

\* the same for the Node, for bodies whose html part comes after a plain part
\* at the same level: the only case in which the plain part does win
PlainBeforeHtmlWins ==
    /\ mimeOut.called /\ mimePayload.multi /\ mimeImpl = "node"
    /\ \E i \in 1..Len(mimePayload.parts) :
          /\ mimePayload.parts[i].mimeType = "text/plain" /\ ~Falsy(mimePayload.parts[i].data)
          /\ \A j \in 1..(i - 1) : LeavesOf(mimePayload.parts[j], "text/html") = <<>>
          /\ \A j \in 1..(i - 1) : LeavesOf(mimePayload.parts[j], "text/plain") = <<>>
    => mimeOut.value = LeavesOf(mimePayload, "text/plain")[1]

(***************************************************************************)
(* The Node initializeWhatsApp under concurrent callers.  A caller runs     *)
(* without interruption up to its first await; the attempt itself           *)
(* (ensureSessionStarted, fetchSessionStatus) settles later.                *)
(***************************************************************************)
MaxCallers == 3

MaxAttempts == 3

Callers == 1..MaxCallers

IdleCaller == [pc |-> "idle", awaits |-> NoPromise, saw |-> "none"]

\* the test `if (initializationPromise)`
JoinsExisting_Never(promise) == FALSE

JoinsExisting(promise) == promise # NoPromise

InitSingleFlight ==
    /\ sfEnabled \in BOOLEAN
    /\ initializationPromise = NoPromise
    /\ sfAttempts = <<>>
    /\ sfCaller = [c \in Callers |-> IdleCaller]
    /\ OrchOff /\ DupOff /\ RunnerOff /\ EntryOff /\ NotifyOff /\ AccountsOff /\ KeywordsOff /\ ParseOff /\ ExtractOff /\ ShutdownOff /\ RowOff /\ FetchOff /\ InsertOff

\* notifications disabled: return null
SfCallDisabled ==
    \E c \in Callers :
        /\ sfCaller[c].pc = "idle" /\ ~sfEnabled
        /\ sfCaller' = [sfCaller EXCEPT ![c] = [pc |-> "returned", awaits |-> NoPromise, saw |-> "null"]]
        /\ UNCHANGED <<sfEnabled, initializationPromise, sfAttempts, outsideSingleFlight>>

\* an attempt is in flight: return its promise
SfCallJoins ==
    \E c \in Callers :
        /\ sfCaller[c].pc = "idle" /\ sfEnabled
        /\ JoinsExisting(initializationPromise)
        /\ sfCaller' = [sfCaller EXCEPT ![c] = [pc |-> "joined", awaits |-> initializationPromise,
                                                saw |-> "none"]]
        /\ UNCHANGED <<sfEnabled, initializationPromise, sfAttempts, outsideSingleFlight>>

\* no attempt in flight and ensureWAHAClient throws: nothing is started
SfCallNoClient ==
    \E c \in Callers :
        /\ sfCaller[c].pc = "idle" /\ sfEnabled
        /\ ~JoinsExisting(initializationPromise)
        /\ sfCaller' = [sfCaller EXCEPT ![c] = [pc |-> "returned", awaits |-> NoPromise, saw |-> "threw"]]
        /\ UNCHANGED <<sfEnabled, initializationPromise, sfAttempts, outsideSingleFlight>>

\* no attempt in flight: start one, keep its promise and await it
SfCallStarts ==
    \E c \in Callers :
        /\ sfCaller[c].pc = "idle" /\ sfEnabled
        /\ ~JoinsExisting(initializationPromise)
        /\ Len(sfAttempts) < MaxAttempts
        /\ sfAttempts' = Append(sfAttempts, "pending")
        /\ initializationPromise' = Len(sfAttempts) + 1
        /\ sfCaller' = [sfCaller EXCEPT ![c] = [pc |-> "owner", awaits |-> Len(sfAttempts) + 1,
                                                saw |-> "none"]]
        /\ UNCHANGED <<sfEnabled, outsideSingleFlight>>

\* ensureSessionStarted and fetchSessionStatus end: the attempt settles
SfAttemptSettles ==
    \E a \in 1..MaxAttempts :
        /\ a \in 1..Len(sfAttempts) /\ sfAttempts[a] = "pending"
        /\ \E outcome \in {"resolved", "rejected"} : sfAttempts' = [sfAttempts EXCEPT ![a] = outcome]
        /\ UNCHANGED <<sfEnabled, initializationPromise, sfCaller, outsideSingleFlight>>

\* the starting caller resumes: finally { initializationPromise = null }
SfOwnerResumes ==
    \E c \in Callers :
        /\ sfCaller[c].pc = "owner" /\ sfAttempts[sfCaller[c].awaits] # "pending"
        /\ initializationPromise' = NoPromise
        /\ sfCaller' = [sfCaller EXCEPT ![c] = [pc |-> "returned", awaits |-> sfCaller[c].awaits,
                                                saw |-> sfAttempts[sfCaller[c].awaits]]]
        /\ UNCHANGED <<sfEnabled, sfAttempts, outsideSingleFlight>>

\* a caller that was handed the promise resumes with its outcome
SfJoinerResumes ==
    \E c \in Callers :
        /\ sfCaller[c].pc = "joined" /\ sfAttempts[sfCaller[c].awaits] # "pending"
        /\ sfCaller' = [sfCaller EXCEPT ![c] = [pc |-> "returned", awaits |-> sfCaller[c].awaits,
                                                saw |-> sfAttempts[sfCaller[c].awaits]]]
        /\ UNCHANGED <<sfEnabled, initializationPromise, sfAttempts, outsideSingleFlight>>

\* the caller calls initializeWhatsApp again later
SfCallerAgain ==
    \E c \in Callers :
        /\ sfCaller[c].pc = "returned" /\ Len(sfAttempts) < MaxAttempts
        /\ sfCaller' = [sfCaller EXCEPT ![c] = IdleCaller]
        /\ UNCHANGED <<sfEnabled, initializationPromise, sfAttempts, outsideSingleFlight>>

NextSingleFlight ==
    \/ SfCallDisabled
    \/ SfCallJoins
    \/ SfCallNoClient
    \/ SfCallStarts
    \/ SfAttemptSettles
    \/ SfOwnerResumes
    \/ SfJoinerResumes
    \/ SfCallerAgain

SpecSingleFlight == InitSingleFlight /\ [][NextSingleFlight]_vars

(***************************************************************************)
(* Claims about initializeWhatsApp (checked under SpecSingleFlight).        *)
(***************************************************************************)
PendingAttempts == {a \in 1..Len(sfAttempts) : sfAttempts[a] = "pending"}

Waiting(c) == sfCaller[c].pc \in {"owner", "joined"}

OneAttemptInFlight ==
    /\ Cardinality(PendingAttempts) <= 1
    /\ \A a \in PendingAttempts : initializationPromise = a
    /\ \A c \in Callers :
          sfCaller[c].pc = "returned" /\ sfCaller[c].awaits # NoPromise
              => sfCaller[c].saw = sfAttempts[sfCaller[c].awaits]

\* a caller that arrives while an attempt is in flight awaits that attempt
\* and starts none
ArrivalJoins ==
    \A c \in Callers :
        sfCaller[c].pc = "idle" /\ sfCaller'[c].pc # "idle" /\ PendingAttempts # {}
            => /\ sfCaller'[c].pc = "joined"
               /\ sfCaller'[c].awaits \in PendingAttempts
               /\ sfAttempts' = sfAttempts

\* C22: at most one session-start attempt is in progress at any time; every
\* caller that arrives while it is in flight awaits that same attempt, and a
\* caller that resumed saw the outcome of the attempt it awaited.
C22_SingleFlight == [](OneAttemptInFlight) /\ [][ArrivalJoins]_vars

\* C22 witness: two callers await the same attempt while it is in flight.
C22_Witness ==
    \E c, d \in Callers :
        /\ sfCaller[c].pc = "owner" /\ sfCaller[d].pc = "joined"
        /\ sfCaller[c].awaits = sfCaller[d].awaits
        /\ sfAttempts[sfCaller[c].awaits] = "pending"

(***************************************************************************)
(* Startup, monitoring and gracefulShutdown of the Node process.  Time is   *)
(* counted in seconds: the handler polls isProcessing every PollSeconds,    *)
(* the interval fires every IntervalSeconds.  A timer that is due fires     *)
(* before time moves on.                                                    *)
(***************************************************************************)
PollSeconds == 1

IntervalSeconds == 60

SdAccounts == 2

SdMessages == 2

\* whether gracefulShutdown waits before it closes and exits
MustWait_Never(processing) == FALSE

MustWait(processing) == processing

\* Cleanup WhatsApp and process.exit(0); nothing can run in between
SdCloseAndExit ==
    /\ sdClosed' = sdEnabled
    /\ sdExited' = TRUE

\* a cycle begins: isProcessing is set and the first account is started
SdCycleBegins ==
    /\ isProcessing' = TRUE
    /\ sdCycle' = [acct |-> 1, msg |-> 0]
    /\ sdAfter' = [sdAfter EXCEPT !.cycle = @ \/ sdSignalled]

InitShutdown ==
    /\ sdEnabled \in BOOLEAN
    /\ sdMain = "init" /\ sdCycle = NoCycle
    /\ sdTick = NoTimer /\ sdPoll = NoTimer
    /\ sdSignalled = FALSE /\ sdClosed = FALSE /\ sdExited = FALSE
    /\ sdAfter = NothingAfter
    /\ OrchOff /\ DupOff /\ RunnerOff /\ EntryOff /\ NotifyOff /\ AccountsOff /\ KeywordsOff /\ ParseOff /\ ExtractOff /\ SingleFlightOff /\ RowOff /\ FetchOff /\ InsertOff

\* main reaches startEmailMonitoring: the first processEmailsOnce
startEmailMonitoring ==
    /\ ~sdExited /\ sdMain = "init"
    /\ SdCycleBegins
    /\ sdMain' = "firstCycle"
    /\ UNCHANGED <<sdEnabled, sdTick, sdPoll, sdSignalled, sdClosed, sdExited,
                   emailCheckInterval, outsideShutdown>>

\* the cycle goes on to the next message of the account
SdNextMessage ==
    /\ ~sdExited /\ isProcessing
    /\ sdCycle.msg < SdMessages
    /\ sdCycle' = [sdCycle EXCEPT !.msg = @ + 1]
    /\ sdAfter' = [sdAfter EXCEPT !.msg = @ \/ sdSignalled]
    /\ UNCHANGED <<sdEnabled, sdMain, sdTick, sdPoll, sdSignalled, sdClosed, sdExited,
                   isProcessing, emailCheckInterval, outsideShutdown>>

\* the cycle goes on to the next account
SdNextAccount ==
    /\ ~sdExited /\ isProcessing
    /\ sdCycle.acct < SdAccounts
    /\ sdCycle' = [acct |-> sdCycle.acct + 1, msg |-> 0]
    /\ sdAfter' = [sdAfter EXCEPT !.acct = @ \/ sdSignalled]
    /\ UNCHANGED <<sdEnabled, sdMain, sdTick, sdPoll, sdSignalled, sdClosed, sdExited,
                   isProcessing, emailCheckInterval, outsideShutdown>>

\* processAllAccounts ends and the finally of processEmailsOnce runs; after
\* the first cycle main goes on to setInterval in the same turn
SdCycleEnds ==
    /\ ~sdExited /\ isProcessing
    /\ sdCycle.acct = SdAccounts
    /\ isProcessing' = FALSE
    /\ sdCycle' = NoCycle
    /\ IF sdMain = "firstCycle"
       THEN /\ sdMain' = "monitoring"
            /\ emailCheckInterval' = TRUE
            /\ sdTick' = IntervalSeconds
       ELSE UNCHANGED <<sdMain, emailCheckInterval, sdTick>>
    /\ UNCHANGED <<sdEnabled, sdPoll, sdSignalled, sdClosed, sdExited, sdAfter,
                   outsideShutdown>>

\* the interval fires: processEmailsOnce
SdTickFires ==
    /\ ~sdExited /\ emailCheckInterval /\ sdTick = 0
    /\ sdTick' = IntervalSeconds
    /\ IF isProcessing
       THEN UNCHANGED <<isProcessing, sdCycle, sdAfter>>
       ELSE SdCycleBegins
    /\ UNCHANGED <<sdEnabled, sdMain, sdPoll, sdSignalled, sdClosed, sdExited,
                   emailCheckInterval, outsideShutdown>>

\* SIGINT or SIGTERM: gracefulShutdown up to its first await
gracefulShutdown ==
    /\ ~sdExited /\ ~sdSignalled
    /\ sdSignalled' = TRUE
    /\ emailCheckInterval' = FALSE
    /\ sdTick' = NoTimer
    /\ IF MustWait(isProcessing)
       THEN /\ sdPoll' = PollSeconds
            /\ UNCHANGED <<sdClosed, sdExited>>
       ELSE /\ SdCloseAndExit
            /\ UNCHANGED sdPoll
    /\ UNCHANGED <<sdEnabled, sdMain, sdCycle, sdAfter, isProcessing, outsideShutdown>>

\* the handler's setTimeout ends: it looks at isProcessing again
SdPollFires ==
    /\ ~sdExited /\ sdPoll = 0
    /\ IF MustWait(isProcessing)
       THEN /\ sdPoll' = PollSeconds
            /\ UNCHANGED <<sdClosed, sdExited>>
       ELSE /\ SdCloseAndExit
            /\ sdPoll' = NoTimer
    /\ UNCHANGED <<sdEnabled, sdMain, sdCycle, sdTick, sdSignalled, sdAfter,
                   isProcessing, emailCheckInterval, outsideShutdown>>

\* one second passes
SdTimePasses ==
    /\ ~sdExited
    /\ sdPoll # 0 /\ sdTick # 0
    /\ sdPoll > 0 \/ sdTick > 0
    /\ sdPoll' = IF sdPoll > 0 THEN sdPoll - 1 ELSE sdPoll
    /\ sdTick' = IF sdTick > 0 THEN sdTick - 1 ELSE sdTick
    /\ UNCHANGED <<sdEnabled, sdMain, sdCycle, sdSignalled, sdClosed, sdExited, sdAfter,
                   isProcessing, emailCheckInterval, outsideShutdown>>

NextShutdown ==
    \/ startEmailMonitoring
    \/ SdNextMessage
    \/ SdNextAccount
    \/ SdCycleEnds
    \/ SdTickFires
    \/ gracefulShutdown
    \/ SdPollFires
    \/ SdTimePasses

SpecShutdown == InitShutdown /\ [][NextShutdown]_vars

(***************************************************************************)
(* Claims about the shutdown (checked under SpecShutdown).                  *)
(***************************************************************************)
\* C23: after a shutdown signal no new processing cycle starts, and the
\* process exits only after the cycle in flight has ended and closeWhatsApp
\* has released the notification session.
C23_ExitAfterCycleAndRelease ==
    /\ ~sdAfter.cycle
    /\ sdExited => ~isProcessing /\ (sdEnabled => sdClosed)

\* C23 witness: the process exited after a signal that arrived while a cycle
\* was in flight, at a moment the interval had been set again.
C23_Witness ==
    /\ sdExited /\ sdEnabled /\ sdClosed
    /\ sdMain = "monitoring" /\ emailCheckInterval

\* C24: once shutdown has been requested, no further message of the account
\* and no further account begins processing before the process exits.
C24_OnlyCurrentMessageFinishes == ~sdAfter.msg /\ ~sdAfter.acct

(***************************************************************************)
(* The columns of the sheet: getHeaderRow and the whole row of              *)
(* createDataRow, of which the ledger model above keeps the four key cells. *)
(***************************************************************************)
HeaderColumns == <<"Date", "Amount", "Category", "Description", "User ID", "Timestamp">>

\* now.toISOString().replace('T', ' ').substring(0, 19)
Timestamp == Str(<<"2", " ", "t">>)

\* the array createDataRow returns
DataRowColumns(transactionData, userId) ==
    <<createDataRow(transactionData).date, createDataRow(transactionData).amount,
      createDataRow(transactionData).category, createDataRow(transactionData).description,
      userId, Timestamp>>

RowEntries ==
    [date : {Null, Str(<<"1">>)}, amount : {Null, Num(0), Num(5)},
     category : {Null, Str(<<"m">>)}, description : {Null, Str(<<"a">>)},
     bank : {Null, Str(<<"J">>), Str(<<"M">>)}]

InitRow ==
    /\ rowEntry \in RowEntries
    /\ rowUserId \in {Null, Str(<<"email-processor", "-", "1">>)}
    /\ rowOut = NoRow
    /\ OrchOff /\ DupOff /\ RunnerOff /\ EntryOff /\ NotifyOff /\ AccountsOff /\ KeywordsOff /\ ParseOff /\ ExtractOff /\ SingleFlightOff /\ ShutdownOff /\ FetchOff /\ InsertOff

RowCreate ==
    /\ ~rowOut.called
    /\ rowOut' = [called |-> TRUE, header |-> HeaderColumns,
                  row |-> DataRowColumns(rowEntry, rowUserId)]
    /\ UNCHANGED <<rowEntry, rowUserId, outsideRow>>

NextRow == RowCreate

SpecRow == InitRow /\ [][NextRow]_vars

(***************************************************************************)
(* Claims about the columns (checked under SpecRow).                        *)
(***************************************************************************)
\* C27: getHeaderRow returns Date, Amount, Category, Description, Bank,
\* Timestamp, and createDataRow returns six cells aligned with them, the
\* fifth being the entry's bank.
C27_SixColumnsWithBank ==
    rowOut.called =>
        /\ rowOut.header = <<"Date", "Amount", "Category", "Description", "Bank", "Timestamp">>
        /\ Len(rowOut.row) = 6
        /\ rowOut.row[5] = rowEntry.bank

\* six columns there are, the fifth being the user id
SixColumnsWithUserId ==
    rowOut.called =>
        /\ Len(rowOut.header) = 6 /\ Len(rowOut.row) = 6
        /\ rowOut.header[5] = "User ID" /\ rowOut.row[5] = rowUserId

(***************************************************************************)
(* The Worker's getEmails: the messages of the list are fetched in batches  *)
(* (of 10 in the source, of BatchSize here), the fetches of one batch run   *)
(* concurrently and end in any order; then processGmailAccount handles the  *)
(* emails one after the other.                                              *)
(***************************************************************************)
MaxList == 4

BatchSize == 2

Min(a, b) == IF a < b THEN a ELSE b

\* messages.slice(i, i + batchSize)
Batch == SubSeq(fetList, fetI + 1, Min(fetI + BatchSize, Len(fetList)))

InSeq(x, s) == \E k \in 1..Len(s) : s[k] = x

Fetched(m) == m \notin fetFailed

\* what Promise.all hands to emails.push: the results in the order of the
\* batch, whatever the order the fetches ended in, without the nulls
Collected_ArrivalOrder(batch, arrived) == SelectSeq(arrived, Fetched)

Collected(batch, arrived) == SelectSeq(batch, Fetched)

InitFetch ==
    /\ \E n \in 0..MaxList : /\ fetList = [k \in 1..n |-> k]
                             /\ fetPc = IF n = 0 THEN "done" ELSE "fetching"
    /\ fetI = 0 /\ fetArrived = <<>> /\ fetFailed = {}
    /\ fetEmails = <<>> /\ fetBusy = 0 /\ fetHandled = <<>>
    /\ fetReordered = FALSE
    /\ OrchOff /\ DupOff /\ RunnerOff /\ EntryOff /\ NotifyOff /\ AccountsOff /\ KeywordsOff /\ ParseOff /\ ExtractOff /\ SingleFlightOff /\ ShutdownOff /\ RowOff /\ InsertOff

\* the fetch of one message of the batch ends, with the message or with null
FetchEnds ==
    /\ fetPc = "fetching"
    /\ \E k \in 1..Len(Batch) :
          /\ ~InSeq(Batch[k], fetArrived)
          /\ fetArrived' = Append(fetArrived, Batch[k])
          /\ fetReordered' = (fetReordered \/ \E j \in 1..(k - 1) : ~InSeq(Batch[j], fetArrived))
          /\ \E ok \in BOOLEAN :
                fetFailed' = IF ok THEN fetFailed ELSE fetFailed \cup {Batch[k]}
    /\ UNCHANGED <<fetList, fetI, fetEmails, fetPc, fetBusy, fetHandled, outsideFetch>>

\* Promise.all resolves: the batch is pushed and the next one begins
FetchBatchEnds ==
    /\ fetPc = "fetching"
    /\ Len(fetArrived) = Len(Batch)
    /\ fetEmails' = fetEmails \o Collected(Batch, fetArrived)
    /\ fetArrived' = <<>>
    /\ fetI' = fetI + BatchSize
    /\ fetPc' = IF fetI + BatchSize < Len(fetList) THEN "fetching"
                ELSE IF fetEmails' = <<>> THEN "done" ELSE "loop"
    /\ UNCHANGED <<fetList, fetFailed, fetBusy, fetHandled, fetReordered, outsideFetch>>

\* the loop takes the next email
FetchLoopTakes ==
    /\ fetPc = "loop" /\ fetBusy = 0
    /\ fetBusy' = fetEmails[Len(fetHandled) + 1]
    /\ UNCHANGED <<fetList, fetI, fetArrived, fetFailed, fetEmails, fetPc, fetHandled,
                   fetReordered, outsideFetch>>

\* the loop is through with the email it holds
FetchLoopEnds ==
    /\ fetPc = "loop" /\ fetBusy # 0
    /\ fetHandled' = Append(fetHandled, fetBusy)
    /\ fetBusy' = 0
    /\ fetPc' = IF Len(fetHandled') = Len(fetEmails) THEN "done" ELSE "loop"
    /\ UNCHANGED <<fetList, fetI, fetArrived, fetFailed, fetEmails, fetReordered, outsideFetch>>

NextFetch == FetchEnds \/ FetchBatchEnds \/ FetchLoopTakes \/ FetchLoopEnds

SpecFetch == InitFetch /\ [][NextFetch]_vars

(***************************************************************************)
(* Claims about the order of the messages (checked under SpecFetch).        *)
(***************************************************************************)
\* C29: getEmails yields the messages in list order, leaving out only those
\* whose fetch failed, and the loop handles them in that order, one at a time.
C29_ListOrderKept ==
    /\ fetPc \in {"loop", "done"} => fetEmails = SelectSeq(fetList, Fetched)
    /\ fetPc = "fetching" =>
          fetEmails = SelectSeq(SubSeq(fetList, 1, Min(fetI, Len(fetList))), Fetched)
    /\ fetHandled = SubSeq(fetEmails, 1, Len(fetHandled))
    /\ fetBusy # 0 => fetBusy = fetEmails[Len(fetHandled) + 1]
    /\ fetPc = "done" => fetHandled = fetEmails

\* C29 witness: fetches ended out of list order, one failed, and the loop
\* handled the remaining messages of two batches.
C29_Witness ==
    /\ fetPc = "done" /\ fetReordered /\ fetFailed # {}
    /\ Len(fetHandled) >= 3

(***************************************************************************)
(* insertTransaction of the D1 service under concurrent Worker cycles.  The *)
(* Worker's entry points start processAllAccounts without looking at any    *)
(* shared state, so cycles overlap; each cycle awaits its own calls of      *)
(* insertTransaction one after the other.  A call awaits the SELECT and     *)
(* then the INSERT: each statement is one step of the database, and other   *)
(* cycles' statements can run between the two.  The table has no UNIQUE     *)
(* constraint over the key.                                                 *)
(***************************************************************************)
MaxConcurrent == 2

MaxInserts == 2

InsCycles == 1..MaxConcurrent

\* the transactions the cycles handle
InsTransactions ==
    [date : {Str(<<"1">>)}, amount : {Num(5)}, category : {Str(<<"m">>)},
     description : {Str(<<"a">>)}, bank : {Str(<<"J">>), Str(<<"M">>)}]

InitInsert ==
    /\ insTable = <<>>
    /\ insPc = [c \in InsCycles |-> "idle"]
    /\ insTx = [c \in InsCycles |-> NoEntry]
    /\ insCalls = [c \in InsCycles |-> 0]
    /\ insRaced = FALSE
    /\ OrchOff /\ DupOff /\ RunnerOff /\ EntryOff /\ NotifyOff /\ AccountsOff /\ KeywordsOff /\ ParseOff /\ ExtractOff /\ SingleFlightOff /\ ShutdownOff /\ RowOff /\ FetchOff

\* another cycle's call is between its SELECT and its INSERT
InsOtherPending(c) == \E o \in InsCycles : o # c /\ insPc[o] = "insert"

\* the SELECT finds a row: { success: true, isDuplicate: true }
InsSelectFinds ==
    \E c \in InsCycles, transaction \in InsTransactions :
        /\ insPc[c] = "idle" /\ insCalls[c] < MaxInserts
        /\ D1Existing(transaction, insTable)
        /\ insCalls' = [insCalls EXCEPT ![c] = @ + 1]
        /\ insRaced' = (insRaced \/ InsOtherPending(c))
        /\ UNCHANGED <<insTable, insPc, insTx, outsideInsert>>

\* the SELECT finds nothing: the call goes on to the INSERT
InsSelectMisses ==
    \E c \in InsCycles, transaction \in InsTransactions :
        /\ insPc[c] = "idle" /\ insCalls[c] < MaxInserts
        /\ ~D1Existing(transaction, insTable)
        /\ insCalls' = [insCalls EXCEPT ![c] = @ + 1]
        /\ insPc' = [insPc EXCEPT ![c] = "insert"]
        /\ insTx' = [insTx EXCEPT ![c] = transaction]
        /\ insRaced' = (insRaced \/ InsOtherPending(c))
        /\ UNCHANGED <<insTable, outsideInsert>>

\* the INSERT runs: { success: true, isDuplicate: false, id }
InsInsert ==
    \E c \in InsCycles :
        /\ insPc[c] = "insert"
        /\ insTable' = Append(insTable, insTx[c])
        /\ insPc' = [insPc EXCEPT ![c] = "idle"]
        /\ insTx' = [insTx EXCEPT ![c] = NoEntry]
        /\ UNCHANGED <<insCalls, insRaced, outsideInsert>>

\* the INSERT throws: the catch logs and rethrows
InsInsertThrows ==
    \E c \in InsCycles :
        /\ insPc[c] = "insert"
        /\ insPc' = [insPc EXCEPT ![c] = "idle"]
        /\ insTx' = [insTx EXCEPT ![c] = NoEntry]
        /\ UNCHANGED <<insTable, insCalls, insRaced, outsideInsert>>

NextInsert == InsSelectFinds \/ InsSelectMisses \/ InsInsert \/ InsInsertThrows

SpecInsert == InitInsert /\ [][NextInsert]_vars

(***************************************************************************)
(* Claims about concurrent inserts (checked under SpecInsert).              *)
(***************************************************************************)
\* no two rows of the table hold the same (date, amount, description, bank)
OneRowPerKey ==
    \A i, j \in 1..Len(insTable) : i < j => ~D1RowMatch(insTable[i], insTable[j])

\* C37: when two Worker cycles run concurrently and both handle a
\* transaction with the same (date, amount, description, bank) key, the
\* check-then-insert of insertTransaction leaves at most one row with that
\* key in the table.
C37_ConcurrentInsertOnce == OneRowPerKey

\* calls that do not interleave leave at most one row per key
SerialInsertOnce == ~insRaced => OneRowPerKey

(***************************************************************************)
(* Claims about the runner and the Worker's entry points.                   *)
(***************************************************************************)

\* C4: in the Node runner at most one cycle is active at any time, and an
\* invocation of processEmailsOnce that arrives while a cycle is active
\* returns without calling processAllAccounts.
C4_SingleActiveCycle ==
    /\ active <= 1
    /\ isProcessing <=> active = 1
    /\ \A i \in 1..Len(calls) : calls[i].sawActive <=> calls[i].state = "skipped"

\* C4 witness: a tick was skipped and the cycle it met is still running.
C4_Witness ==
    /\ active = 1
    /\ \E i, j \in 1..Len(calls) :
          i < j /\ calls[i].state = "running" /\ calls[j].state = "skipped"

\* a step in which a call of processAllAccounts settles
CycleEnds == active' < active

\* a step that invokes processEmailsOnce while no cycle is in progress and
\* an earlier one has ended
TickAfterCycleEnded ==
    /\ Len(calls') > Len(calls) /\ active = 0
    /\ \E i \in 1..Len(calls) : calls[i].state \in {"done", "failed"}

\* C38: isProcessing is released whenever a cycle ends, by return or by
\* throw of processAllAccounts, so a timer tick that comes after a cycle has
\* ended starts a new cycle.
C38_GuardAlwaysReleased ==
    /\ [][CycleEnds => ~isProcessing']_vars
    /\ [][TickAfterCycleEnded => calls'[Len(calls')].state = "running"]_vars

\* C38 witness: a cycle ended by a throw and a later tick started a cycle.
C38_Witness ==
    \E i, j \in 1..Len(calls) :
        i < j /\ calls[i].state = "failed" /\ calls[j].state = "running"

\* C5: in the Worker no two calls of processAllAccounts, whether started by
\* POST /trigger or by the cron handler, are ever in progress together.
C5_WorkerCyclesSerialized == workerActive <= 1

(***************************************************************************)
(* Claims about the account cycle (checked under Spec).                     *)
(***************************************************************************)
Threshold == BATCH_NOTIFICATION_THRESHOLD

\* the message whose handling just ended failed in Extract or in Parse
ExtractOrParseFailed == hist.finished /\ (hist.extracted = "empty" \/ hist.parsed = "null")

\* C1: a message whose extraction yields no text or whose parse returns null
\* is counted as exactly one error, is never deduplicated or persisted, and
\* markEmailProcessed is called for it exactly once.
C1_FailedMessageCountedAndLabeledOnce ==
    ExtractOrParseFailed => hist.errs = 1 /\ hist.labelCalls = 1 /\ hist.verdict = "none"

LoopOver == pc \in {"persist", "notify", "done"} /\ emails # <<>>

WithBody == Cardinality({i \in 1..Len(emails) : hasBody[emails[i]]})

\* C2: a failure in one message never stops the per-message loop: when the
\* loop is left every fetched message has been extracted and every message
\* with a body has been parsed, and the summary returned by a cycle whose
\* only failures were per-message ones carries the counts of the whole loop.
C2_LoopNeverStops ==
    /\ pc = "extract" => handled = idx - 1
    /\ pc \in {"parse", "dedupe", "insert", "label"} => handled = idx
    /\ LoopOver => handled = Len(emails) /\ parseCalls = WithBody
    /\ pc = "done" /\ emails # <<>> =>
          summary = Summary(transactionsCount, duplicateCount, errorCount)

\* C2 witness: the first message failed and the second one was parsed all the same.
C2_Witness ==
    /\ pc = "done" /\ Len(emails) = 2
    /\ hist.msg = emails[2] /\ hist.parsed = "ok" /\ hist.errs = 0
    /\ errorCount = 1 /\ summary.errors = 1

\* C3: when the ledger write of a message's transaction fails, the failure is
\* counted as an error and the message is still labeled processed.
C3_WriteFailureStillLabeled ==
    /\ hist.finished /\ hist.verdict = "failed" => hist.errs = 1 /\ hist.labelCalls = 1
    /\ IsNode /\ pc = "failed" /\ emails # <<>> => summary.errors >= 1

FourFields(e) == <<e.date, e.amount, e.category, e.description>>

\* the sheet already holds the row that createDataRow makes of the entry
RecordedInSheet(entry) ==
    \E i \in 2..Len(sheet) : sheet[i] = SheetRow(createDataRow(entry))

\* the table held the four-field tuple before the row just inserted
RecordedInDbBefore(transaction) ==
    \E i \in 1..(Len(db) - 1) : FourFields(db[i]) = FourFields(transaction)

\* C6: a transaction whose {date, amount, category, description} tuple is
\* already recorded in the ledger is judged a duplicate and adds no row.
C6_RecordedTupleIsDuplicate ==
    /\ IsNode /\ pc = "label" /\ hist.verdict # "none"
         /\ existingData = getExistingData(sheet) /\ RecordedInSheet(cur)
       => hist.verdict = "dup"
    /\ IsWorker /\ pc = "label" /\ hist.verdict = "new" => ~RecordedInDbBefore(cur)

\* C25: every message fetched by an account cycle is marked processed by the
\* end of that cycle, whatever its outcome.
C25_EveryFetchedMessageLabeled ==
    pc \in {"done", "failed"} => \A i \in 1..Len(emails) : emails[i] \in labeled

\* the ledger holds the transaction of the current message
InLedger(entry) ==
    IF IsNode THEN \E i \in 1..Len(sheet) : sheet[i] = SheetRow(createDataRow(entry))
    ELSE \E i \in 1..Len(db) : db[i] = entry

\* C28: the steps of a message run in the order Extract, Parse, Dedupe,
\* Persist, Label: when the label step of a new (non-duplicate) transaction
\* is reached, the transaction has been written to the ledger.
C28_LabelOnlyAfterWrite ==
    pc = "label" /\ hist.verdict = "new" => InLedger(cur)

\* the Worker does write before it labels
WorkerLabelsAfterWrite ==
    IsWorker /\ pc = "label" /\ hist.verdict = "new" => InLedger(cur)

\* the step that judges the current message a duplicate
JudgedDuplicate == hist.verdict = "none" /\ hist'.verdict = "dup"

\* that step adds one to the duplicates count and leaves the ledger, the rows
\* to append, the transactions to notify and the processed count alone
DuplicateDiscarded ==
    JudgedDuplicate =>
        /\ duplicateCount' = duplicateCount + 1
        /\ UNCHANGED <<sheet, db, written, allDataRows, processedTransactions,
                       transactionsCount, errorCount>>

\* no later step of handling the message writes it, queues it for a
\* notification or counts it as processed
DuplicateStaysOut ==
    hist.verdict = "dup" /\ ~hist.finished =>
        UNCHANGED <<sheet, db, written, allDataRows, processedTransactions,
                    transactionsCount, duplicateCount>>

\* C31: a transaction judged a duplicate is never written to the ledger and
\* is in no notification and not in the processed count: of the counters
\* of the summary it increments the duplicates count only.
C31_DuplicateOnlyCounted ==
    /\ [][DuplicateDiscarded /\ DuplicateStaysOut]_vars
    /\ [](hist.verdict = "dup" => hist.errs = 0)

\* a duplicate is never written, notified or counted as processed
DuplicateNeverWritten == [][DuplicateDiscarded /\ DuplicateStaysOut]_vars

\* C32: when the Sheets orchestrator collected k >= 1 new transactions and
\* appended them, exactly k transaction rows were written: the processed
\* count it reports is the number of rows written and every transaction that
\* was individually notified was written.
C32_CollectedRowsAllWritten ==
    IsNode /\ pc \in {"notify", "done"} /\ Len(processedTransactions) >= 1 =>
        /\ written = Len(processedTransactions)
        /\ transactionsCount = written
        /\ sentIndividual <= written

\* the count the Sheets orchestrator reports is the number of transactions
\* it collected, whatever was written
ReportedCountIsCollected ==
    IsNode /\ pc \in {"notify", "done"} /\ Len(processedTransactions) >= 1 =>
        transactionsCount = Len(processedTransactions)

\* the cycle ended without an account-level failure
CycleCompleted == pc = "done"

\* C33: at the end of an account cycle that hit no account-level failure
\* processed + duplicates + errors is the number of messages fetched, also
\* when labeling a message fails after its transaction was persisted.
C33_CountersPartitionMessages ==
    CycleCompleted =>
        summary.processed + summary.duplicates + summary.errors = Len(emails)

\* the Sheets orchestrator counts every message exactly once
NodeCountersPartitionMessages ==
    IsNode /\ CycleCompleted =>
        summary.processed + summary.duplicates + summary.errors = Len(emails)

\* the data rows the Sheets cycle appended to the sheet
RowsAppended(before, after) == SubSeq(after, Len(before) + 1, Len(after))

\* the number of positions of rows holding the four-field tuple of row
TupleCount(rows, row) ==
    Cardinality({i \in 1..Len(rows) :
        /\ rows[i].date = row.date /\ rows[i].amount = row.amount
        /\ rows[i].category = row.category /\ rows[i].description = row.description})

\* C34: within one account cycle two messages that parse to the same
\* {date, amount, category, description} produce at most one new ledger row;
\* the second is counted as a duplicate.
C34_SameTupleOncePerCycle ==
    [][\A i \in 1..Len(sheet') :
           i > Len(sheet) => TupleCount(RowsAppended(sheet, sheet'), sheet'[i]) = 1]_vars

\* the Worker inserts a tuple at most once per cycle: every insert is
\* preceded by a look-up in the table that holds the earlier inserts
WorkerSameTupleOnce ==
    [][\A i \in 1..Len(db') :
           i > Len(db) => ~ \E j \in 1..Len(db) : D1RowMatch(db'[i], db[j])]_vars

\* the cycle's read of the ledger failed: getExistingData returned nothing
\* although the sheet holds data rows
LedgerReadFailed ==
    IsNode /\ pc = "persist" /\ existingData = <<>> /\ getExistingData(sheet) # <<>>

\* no transaction row the step appends was in the sheet before the step
NoRowAppendedAgain ==
    \A i \in (Len(sheet) + 1)..Len(sheet') :
        sheet'[i] # SheetRow(getHeaderRow) =>
            \A j \in 2..Len(sheet) : sheet'[i] # sheet[j]

\* C35: if reading the existing ledger fails at the start of an account
\* cycle, no transaction already in the ledger is appended again in that
\* cycle: a failed read is not taken for an empty ledger.
C35_ReadFailureNotEmptyLedger == [][LedgerReadFailed => NoRowAppendedAgain]_vars

\* the number of header rows in the sheet
HeaderRows == Cardinality({i \in 1..Len(sheet) : sheet[i] = SheetRow(getHeaderRow)})

\* C36: over any sequence of cycles the header row is written at most once:
\* a cycle writes it only when the sheet has no rows at all, not when it
\* holds a header row and no data rows.
C36_HeaderWrittenOnce ==
    /\ [](HeaderRows <= 1)
    /\ [][\A i \in (Len(sheet) + 1)..Len(sheet') :
             sheet'[i] = SheetRow(getHeaderRow) => sheet = <<>>]_vars

\* C18: a message for which the model returned a null amount is a parse
\* failure: no ledger row is persisted with the fabricated amount 0 (every
\* amount the model returns here is null or 5).
C18_NoFabricatedAmount ==
    /\ \A i \in 1..Len(sheet) : sheet[i].amount # SheetCell(Num(0))
    /\ \A i \in 1..Len(db) : db[i].amount # Num(0)

\* C13: a failed notification (a failed send, individual or batch, or a
\* failed session start) leaves the counts of the summary as the loop left
\* them and changes neither the ledger nor the set of labeled messages.
C13_NotifyFailureChangesNothing ==
    [][pc = "notify" /\ notifyFailed' =>
          /\ summary' = Summary(transactionsCount, duplicateCount, errorCount)
          /\ <<labeled, sheet, db, written>>' = <<labeled, sheet, db, written>>]_vars

\* C13 witness: a cycle that persisted a transaction ended with a failed notification.
C13_Witness ==
    pc = "done" /\ notifyFailed /\ summary.processed > 0 /\ summary.errors = 0

\* C10: with notifications enabled the mode follows from the number n of
\* transactions the cycle newly persisted and the threshold T: nothing for
\* n = 0, n individual notifications and no aggregate for 0 < n <= T, one
\* aggregate and no individual notification for n > T.
C10_ModeByPersistedCount ==
    pc \in {"done", "failed"} /\ notifyEnabled =>
        /\ written = 0 => sentIndividual = 0 /\ sentBatch = 0
        /\ 0 < written /\ written <= Threshold => sentIndividual = written /\ sentBatch = 0
        /\ written > Threshold => sentIndividual = 0 /\ sentBatch = 1

\* the same rule read on the orchestrator's own count of new transactions
ModeByReportedCount ==
    pc = "done" /\ notifyEnabled =>
        /\ summary.processed = 0 => sentIndividual = 0 /\ sentBatch = 0
        /\ 0 < summary.processed /\ summary.processed <= Threshold
              => sentIndividual = summary.processed /\ sentBatch = 0
        /\ summary.processed > Threshold => sentIndividual = 0 /\ sentBatch = 1

(***************************************************************************)
(* Claims about the duplicate resolvers (checked under SpecDup).            *)
(***************************************************************************)
\* the comparison the specification states: lower-cased, trimmed string forms
StatedKey(v) == trim(toLowerCase(JSString(v)))

StatedMatch(newEntry, existing) ==
    \A i \in 1..Len(keyFields) :
        StatedKey(newEntry[keyFields[i]]) = StatedKey(existing[keyFields[i]])

BankChanged == dupPrev # NoVerdict

C8_DifferentBankNotDuplicate ==
    dupVerdict # NoVerdict =>
        (dupVerdict.sheets = "dup" <=>
            \E i \in 1..Len(dupLedger) :
                /\ EntryMatch(dupCand, SheetEntry(dupLedger[i]))
                /\ SheetEntry(dupLedger[i]).bank = SheetCell(dupCand.bank))

\* C9: isDuplicate is true exactly when some existing entry equals the
\* candidate on date, amount, category and description, each compared as a
\* lower-cased, trimmed string (the amount by its string form).
C9_ExactFourFieldMatch ==
    dupVerdict # NoVerdict =>
        (dupVerdict.sheets = "dup" <=>
            \E i \in 1..Len(dupLedger) : StatedMatch(dupCand, SheetEntry(dupLedger[i])))

====
